---- MODULE Spec2Model ----
(***************************************************************************)
(* Model of logpile: the bucket aggregator (src/src/bucket.rs) and the     *)
(* batch scan policy (src/src/processor.rs).                               *)
(*                                                                         *)
(* Instants are i64 microsecond counts since the Unix epoch, as returned   *)
(* by DateTime::timestamp_micros().  An f64 number of seconds is held as   *)
(* an exact fraction [n |-> numerator, d |-> denominator] with d > 0; all  *)
(* f64 values that occur (0.1, 0.5, 1, 60, 300, ...) multiply by 1e6 to    *)
(* the exact integer in IEEE double arithmetic, so the fraction loses      *)
(* nothing.                                                                *)
(***************************************************************************)
EXTENDS Integers, Sequences, FiniteSets, TLC

\* ---------------------------------------------------------------- bounds
\* number of add calls explored on one aggregator
MaxAdds == 4
\* calculate_auto_bucket_size is applied to every span of 0..MaxSpanSeconds
\* whole seconds, and to the spans around the rungs of the ladder
MaxSpanSeconds == 100
\* lines read from one source, and sources of one batch run
MaxLines == 12
MaxFiles == 2
\* number of add calls explored on an aggregator built by TimeBucket::new
MaxBuiltAdds == 3

\* ------------------------------------------------------- program constants
TARGET_BUCKETS == 15
MICROS_PER_SECOND == 1000000
DEFAULT_BUCKET_SECONDS == 60
\* run_batch_mode gives up on a source after more than this many matching
\* lines without a timestamp
EARLY_EXIT_LINES == 10

\* ------------------------------------------------------------ value types
\* Option<T>: None is the empty sequence, Some(x) the one-element sequence
None == << >>
Some(x) == << x >>
IsNone(o) == o = << >>
IsSome(o) == o # << >>
Unwrap(o) == o[1]

\* an f64 number of seconds as an exact fraction
F64(n, d) == [n |-> n, d |-> d]

\* enum BucketSize { Seconds(f64), Auto }
Seconds(n, d) == [kind |-> "Seconds", s |-> F64(n, d)]
Auto == [kind |-> "Auto", s |-> F64(0, 1)]

Abs(x) == IF x < 0 THEN -x ELSE x

\* Rust integer division `a / b` on i64: the quotient is truncated toward zero
TruncDiv(a, b) ==
    LET q == Abs(a) \div Abs(b)
    IN  IF (a < 0) # (b < 0) THEN -q ELSE q

\* mathematical floor division, for stating the documented bucket key
FloorDiv(a, b) ==
    LET q == TruncDiv(a, b)
    IN  IF q * b # a /\ ((a < 0) # (b < 0)) THEN q - 1 ELSE q

\* a width cast to whole seconds before it is scaled to microseconds
BucketMicrosWholeSeconds(secs) == TruncDiv(secs.n, secs.d) * MICROS_PER_SECOND

\* `(bucket_seconds * 1_000_000.0) as i64`: the cast truncates toward zero
BucketMicros(secs) == TruncDiv(secs.n * MICROS_PER_SECOND, secs.d)

\* ---------------------------------------------------------- input domains
\* instants handed to add(): before the epoch, on a bucket edge, inside one
\* second, inside one minute, minutes and a quarter of an hour apart
Instants ==
    { -90000000, -1, 0, 100000, 300000, 600000, 15000000, 30000000,
      75000000, 900000000 }

\* the widths TimeBucket::new can hold: the default, "60", "0.5", "0",
\* "-60" and "auto" (from_string accepts every f64)
BucketSizes ==
    { Seconds(60, 1), Seconds(1, 2), Seconds(0, 1), Seconds(-60, 1), Auto }

VARIABLES
    bucket_size,        \* TimeBucket.bucket_size
    buckets,            \* TimeBucket.buckets: BTreeMap<i64, usize> as the
                        \* key-ordered sequence of <<key, count>> entries
    first_timestamp,    \* TimeBucket.first_timestamp: Option<instant>
    last_timestamp,     \* TimeBucket.last_timestamp: Option<instant>
    panicked,           \* an add call has panicked (the process is gone)
    added,              \* history: how often each instant was passed to add
    span_seconds,       \* argument of a calculate_auto_bucket_size call
    auto_size,          \* Option<f64>: what that call returned
    fail_quick,         \* Args.fail_quick
    time_format,        \* Args.time_format: Option<String>
    readers,            \* number of readers create_readers returned
    pc,                 \* where run_batch_mode is: "new", "lines" (reading
                        \* source file_idx), "output", "err", "panicked"
    error,              \* the message the run bailed with, "" if none
    file_idx,           \* index of the source being read
    total_files_processed,
    files_with_matches,
    lines_processed,
    matching_lines_processed,
    timestamp_found,
    last_read,          \* history: what the last read of a source returned
    bucket_size_arg,    \* the Option<String> handed to TimeBucket::new
    built,              \* "no" before TimeBucket::new, then "ok" or "err"
    returned,           \* what the last read-only call on the aggregator
                        \* returned, as [op, value]
    input_line,         \* the text handed to the timestamp parser
    custom_format,      \* TimestampParser.custom_format: Option<format>
    now,                \* the UTC date Utc::now() reports during the call
    parse_result,       \* what the parser call returned
    args,               \* Args: pattern, files, grep, no_default_pattern,
                        \* follow
    patterns,           \* LogProcessor.patterns: Vec<Regex>
    run_pc,             \* where the processor is: "args" (before
                        \* LogProcessor::new), "built", "running", "err"
    run_error,          \* the message new or run returned with, "" if none
    source,             \* what the run reads: [mode, paths], no path for
                        \* the standard input
    line_seen,          \* history: the last line handed to the loop body
                        \* and what was done with it
    to_write,           \* the lines the writer of the followed file has
                        \* not yet appended
    partial_writes,     \* the writer also flushes in the middle of a line
    file,               \* the complete lines of the followed file
    tail_len,           \* characters of the next line already in the file
    follow_pc,          \* where run_follow_file is: "open", "initial",
                        \* "sleep", "skip", "read", "err"
    reader,             \* position of the open LogReader: lines consumed
                        \* and characters consumed of the line after them
    skipped,            \* iterations of the skip loop done in this poll
    last_position,      \* run_follow_file's last_position
    new_lines_found,    \* run_follow_file's new_lines_found
    examined            \* history: the pieces of the file handed to the
                        \* loop body, in order, as << line, from, to >>

bucketVars ==
    << bucket_size, buckets, first_timestamp, last_timestamp, panicked, added >>

\* ------------------------------------------------------------- aggregator
\* TimeBucket::calculate_auto_bucket_size; total_seconds is a whole number
\* of seconds, ideal = total_seconds / TARGET_BUCKETS is compared exactly
IdealLt(total_seconds, n, d) == total_seconds * d < TARGET_BUCKETS * n

calculate_auto_bucket_size(total_seconds) ==
    IF IdealLt(total_seconds, 1, 10) THEN F64(1, 10)
    ELSE IF IdealLt(total_seconds, 1, 1) THEN F64(1, 1)
    ELSE IF IdealLt(total_seconds, 60, 1) THEN F64(60, 1)
    ELSE IF IdealLt(total_seconds, 300, 1) THEN F64(300, 1)
    ELSE IF IdealLt(total_seconds, 900, 1) THEN F64(900, 1)
    ELSE IF IdealLt(total_seconds, 3600, 1) THEN F64(3600, 1)
    ELSE IF IdealLt(total_seconds, 21600, 1) THEN F64(21600, 1)
    ELSE IF IdealLt(total_seconds, 86400, 1) THEN F64(86400, 1)
    ELSE F64((total_seconds \div (TARGET_BUCKETS * 86400)) * 86400, 1)

\* last.signed_duration_since(first).num_seconds(): whole seconds
num_seconds(first, last) == TruncDiv(last - first, MICROS_PER_SECOND)

\* a get_bucket_size that auto-sizes a fixed width too once data exists
get_bucket_size_always_auto(size, first, last) ==
    IF IsSome(first) /\ IsSome(last)
    THEN calculate_auto_bucket_size(num_seconds(Unwrap(first), Unwrap(last)))
    ELSE IF size.kind = "Seconds" THEN size.s
    ELSE F64(DEFAULT_BUCKET_SECONDS, 1)

\* TimeBucket::get_bucket_size on the fields (size, first, last)
get_bucket_size(size, first, last) ==
    IF size.kind = "Seconds" THEN size.s
    ELSE IF IsSome(first) /\ IsSome(last)
         THEN calculate_auto_bucket_size(num_seconds(Unwrap(first), Unwrap(last)))
         ELSE F64(DEFAULT_BUCKET_SECONDS, 1)

\* TimeBucket::bucket_size_seconds
bucket_size_seconds == get_bucket_size(bucket_size, first_timestamp, last_timestamp)

\* add, lines 47-49: first_timestamp takes the minimum
UpdateFirstOnlyWhenNone(first, timestamp) ==
    IF IsNone(first) THEN Some(timestamp) ELSE first

UpdateFirst(first, timestamp) ==
    IF IsNone(first) \/ timestamp < Unwrap(first) THEN Some(timestamp) ELSE first

\* a last_timestamp that follows the most recent add
UpdateLastAlways(last, timestamp) == Some(timestamp)

\* add, lines 50-52: last_timestamp takes the maximum
UpdateLast(last, timestamp) ==
    IF IsNone(last) \/ timestamp > Unwrap(last) THEN Some(timestamp) ELSE last

\* a key that is the instant itself
bucket_key_untruncated(timestamp_micros, bucket_micros) == timestamp_micros

\* add, line 57: the key is the instant truncated to a multiple of the width
bucket_key(timestamp_micros, bucket_micros) ==
    TruncDiv(timestamp_micros, bucket_micros) * bucket_micros

\* position of the first entry whose key is >= key, Len(m) + 1 if none
LowerBound(m, key) ==
    IF \E i \in 1..Len(m) : m[i][1] >= key
    THEN CHOOSE i \in 1..Len(m) :
            /\ m[i][1] >= key
            /\ \A j \in 1..(i - 1) : m[j][1] < key
    ELSE Len(m) + 1

\* a map insert that forgets the count already stored under the key
BTreeOverwrite(m, key) ==
    LET i == LowerBound(m, key)
    IN  IF i <= Len(m) /\ m[i][1] = key
        THEN [m EXCEPT ![i] = << key, 1 >>]
        ELSE SubSeq(m, 1, i - 1) \o << << key, 1 >> >> \o SubSeq(m, i, Len(m))

\* a map insert that puts a new key behind all the others
BTreeAppend(m, key) ==
    IF \E i \in 1..Len(m) : m[i][1] = key
    THEN [i \in 1..Len(m) |->
            IF m[i][1] = key THEN << key, m[i][2] + 1 >> ELSE m[i]]
    ELSE Append(m, << key, 1 >>)

\* add, line 59: *self.buckets.entry(bucket_key).or_insert(0) += 1
BTreeIncrement(m, key) ==
    LET i == LowerBound(m, key)
    IN  IF i <= Len(m) /\ m[i][1] = key
        THEN [m EXCEPT ![i] = << key, m[i][2] + 1 >>]
        ELSE SubSeq(m, 1, i - 1) \o << << key, 1 >> >> \o SubSeq(m, i, Len(m))

\* TimeBucket::add.  The division by bucket_micros panics when it is 0; the
\* two timestamps have been written by then, the map has not.
add(timestamp) ==
    LET first1 == UpdateFirst(first_timestamp, timestamp)
        last1 == UpdateLast(last_timestamp, timestamp)
        bucket_seconds == get_bucket_size(bucket_size, first1, last1)
        bucket_micros == BucketMicros(bucket_seconds)
    IN  /\ first_timestamp' = first1
        /\ last_timestamp' = last1
        /\ added' = [added EXCEPT ![timestamp] = @ + 1]
        /\ IF bucket_micros = 0
           THEN /\ panicked' = TRUE
                /\ buckets' = buckets
           ELSE /\ panicked' = panicked
                /\ buckets' = BTreeIncrement(buckets, bucket_key(timestamp, bucket_micros))
        /\ UNCHANGED bucket_size

\* TimeBucket::get_buckets: the entries in the map's iteration order
get_buckets == buckets

RECURSIVE SumCounts(_)
SumCounts(m) == IF m = << >> THEN 0 ELSE Head(m)[2] + SumCounts(Tail(m))

\* TimeBucket::total_matches
total_matches == SumCounts(buckets)

\* TimeBucket::time_range
time_range ==
    IF IsSome(first_timestamp) /\ IsSome(last_timestamp)
    THEN Some(<< Unwrap(first_timestamp), Unwrap(last_timestamp) >>)
    ELSE None

\* TimeBucket::new, after a successful BucketSize construction
TimeBucketNew(size) ==
    /\ bucket_size = size
    /\ buckets = << >>
    /\ first_timestamp = None
    /\ last_timestamp = None
    /\ panicked = FALSE
    /\ added = [t \in Instants |-> 0]

\* ---------------------------------------------------------------- history
RECURSIVE SumOver(_, _)
SumOver(f, S) ==
    IF S = {} THEN 0
    ELSE LET x == CHOOSE y \in S : TRUE IN f[x] + SumOver(f, S \ {x})

\* number of add calls made so far
NumAdded == SumOver(added, Instants)
AddedSet == { t \in Instants : added[t] > 0 }
\* number of added instants in [lo, hi)
CountIn(lo, hi) == SumOver(added, { t \in Instants : lo <= t /\ t < hi })
\* the count stored under a key, 0 when the key is absent
CountAt(key) ==
    IF \E i \in 1..Len(buckets) : buckets[i][1] = key
    THEN buckets[CHOOSE i \in 1..Len(buckets) : buckets[i][1] = key][2]
    ELSE 0
Min(S) == CHOOSE x \in S : \A y \in S : x <= y
Max(S) == CHOOSE x \in S : \A y \in S : x >= y

autoVars == << span_seconds, auto_size >>
vars ==
    << bucket_size, buckets, first_timestamp, last_timestamp, panicked, added,
       span_seconds, auto_size, fail_quick, time_format, readers, pc, error,
       file_idx, total_files_processed, files_with_matches, lines_processed,
       matching_lines_processed, timestamp_found, last_read,
       bucket_size_arg, built, returned,
       input_line, custom_format, now, parse_result,
       args, patterns, run_pc, run_error, source, line_seen,
       to_write, partial_writes, file, tail_len, follow_pc, reader, skipped,
       last_position, new_lines_found, examined >>
NoAutoCall == span_seconds = 0 /\ auto_size = None

\* the variables of the TimeBucket::new call and of the read-only calls
newVars == << bucket_size_arg, built, returned >>
NoReturn == [op |-> "none", value |-> None]
\* the aggregator was handed over already built
NoNewCall == bucket_size_arg = None /\ built = "ok" /\ returned = NoReturn

\* the variables of the timestamp parser
parseVars == << input_line, custom_format, now, parse_result >>
NoInstant == [unix |-> << >>, civil |-> << >>, offset |-> 0]
\* what a parser call returned: outcome "some" with the instant ts, "none",
\* or "panic"; candidate and format are the positions of the pair that
\* parsed in the candidate list and in the format table (0 for the custom
\* format and the whole line), via is the branch of parse_with_format that
\* returned
Returned(call, outcome, ts, candidate, format, via) ==
    [call |-> call, outcome |-> outcome, ts |-> ts, candidate |-> candidate,
     format |-> format, via |-> via]
NotCalled == Returned("none", "none", NoInstant, 0, 0, "")
NoParserCall ==
    /\ input_line = << >>
    /\ custom_format = None
    /\ now = [year |-> 1970, month |-> 1, day |-> 1]
    /\ parse_result = NotCalled

\* the variables of the processor's construction and dispatch
runVars == << args, patterns, run_pc, run_error, source, line_seen >>
NotSeen == [line |-> << >>, matched |-> FALSE, parsed |-> None]
NoRun ==
    /\ args = [pattern |-> None, files |-> << >>, grep |-> << >>,
               no_default_pattern |-> FALSE, follow |-> FALSE]
    /\ patterns = << >>
    /\ run_pc = "none"
    /\ run_error = ""
    /\ source = None
    /\ line_seen = NotSeen

\* the variables of run_follow_file and of the file it follows
followVars ==
    << to_write, partial_writes, file, tail_len, follow_pc, reader, skipped,
       last_position, new_lines_found, examined >>
AtStart == [ln |-> 0, off |-> 0]
NoFollow ==
    /\ to_write = << >>
    /\ partial_writes = FALSE
    /\ file = << >>
    /\ tail_len = 0
    /\ follow_pc = "none"
    /\ reader = AtStart
    /\ skipped = 0
    /\ last_position = 0
    /\ new_lines_found = FALSE
    /\ examined = << >>

\* ------------------------------------------------------ batch scan policy
\* A line is what the scan policy sees of it: whether it matches a pattern
\* (matches_patterns) and what parse_line returns for it.
BatchInstants == { 30000000, 75000000 }
Lines ==
    { [kind |-> "line", matches |-> FALSE, ts |-> None],
      [kind |-> "line", matches |-> TRUE, ts |-> None] } \cup
    { [kind |-> "line", matches |-> TRUE, ts |-> Some(t)] : t \in BatchInstants }
EndOfFile == [kind |-> "eof", matches |-> FALSE, ts |-> None]
NothingRead == [kind |-> "none", matches |-> FALSE, ts |-> None]
TimeFormats == { None, Some("%Y/%m/%d %H:%M:%S") }

NoTimestampsDetected == "No valid timestamps detected in log file"
NoMatchingLines == "No matching lines found in log file"
NoMatchesInAnyFile == "No matches found in any files"

batchVars ==
    << pc, error, file_idx, total_files_processed, files_with_matches,
       lines_processed, matching_lines_processed, timestamp_found >>
argVars == << fail_quick, time_format, readers >>

SetBatch(p, e, fi, tfp, fwm, lp, mlp, tf) ==
    /\ pc' = p
    /\ error' = e
    /\ file_idx' = fi
    /\ total_files_processed' = tfp
    /\ files_with_matches' = fwm
    /\ lines_processed' = lp
    /\ matching_lines_processed' = mlp
    /\ timestamp_found' = tf

\* run_batch_mode has not been entered
BatchIdle ==
    /\ pc = "new"
    /\ error = ""
    /\ file_idx = 0
    /\ total_files_processed = 0
    /\ files_with_matches = 0
    /\ lines_processed = 0
    /\ matching_lines_processed = 0
    /\ timestamp_found = FALSE
    /\ last_read = NothingRead

\* an early exit that waits for one matching line more
EarlyExitOneLater(mlp, tf) ==
    mlp > EARLY_EXIT_LINES + 1 /\ ~tf /\ IsNone(time_format)

\* an early exit that forgets the timestamps already found in the source
EarlyExitDespiteTimestamp(mlp, tf) ==
    mlp > EARLY_EXIT_LINES /\ IsNone(time_format)

\* lines 98-100: the early exit inside the line loop
EarlyExit(mlp, tf) ==
    mlp > EARLY_EXIT_LINES /\ ~tf /\ IsNone(time_format)

\* line 134: the source had lines and none matched
SourceWithoutMatch(lp, mlp) == lp > 0 /\ mlp = 0

\* an end-of-source check that has lost the negation of timestamp_found
SourceWithoutTimestampNegated(mlp, tf) ==
    mlp > 0 /\ tf /\ IsNone(time_format)

\* line 156: the source had matching lines and no timestamp
SourceWithoutTimestamp(mlp, tf) ==
    mlp > 0 /\ ~tf /\ IsNone(time_format)

\* lines 178-180: the source counts as one that had matches
SourceCounts(mlp) == mlp > 0

\* line 184: no source counted
NothingCounted(tfp, fwm) == tfp > 0 /\ fwm = 0

\* anyhow::bail!: the run ends with an error, the counters stay as they are
Bail(e, lp, mlp, tf) ==
    SetBatch("err", e, file_idx, total_files_processed, files_with_matches,
             lp, mlp, tf)

\* lines 183-195: after the last source
AfterSources(fwm, lp, mlp, tf) ==
    IF NothingCounted(total_files_processed, fwm)
    THEN SetBatch("err", NoMatchesInAnyFile, file_idx, total_files_processed,
                  fwm, lp, mlp, tf)
    ELSE SetBatch("output", "", file_idx, total_files_processed, fwm, lp, mlp, tf)

\* the end of one iteration of `for (source, reader) in readers`, and lines
\* 67-72 of the next one
NextSource(fwm, lp, mlp, tf) ==
    IF file_idx < readers
    THEN SetBatch("lines", "", file_idx + 1, total_files_processed + 1, fwm,
                  0, 0, FALSE)
    ELSE AfterSources(fwm, lp, mlp, tf)

\* lines 133-180: what follows the line loop of one source
PostLoop(lp, mlp, tf) ==
    IF SourceWithoutMatch(lp, mlp)
    THEN IF fail_quick
         THEN Bail(NoMatchingLines, lp, mlp, tf)
         ELSE NextSource(files_with_matches, lp, mlp, tf)
    ELSE IF SourceWithoutTimestamp(mlp, tf)
    THEN IF fail_quick
         THEN Bail(NoTimestampsDetected, lp, mlp, tf)
         ELSE NextSource(files_with_matches, lp, mlp, tf)
    ELSE NextSource(IF SourceCounts(mlp) THEN files_with_matches + 1
                    ELSE files_with_matches, lp, mlp, tf)

\* lines 54-72: run_batch_mode opens the readers and enters the first source
RunBatchMode ==
    /\ pc = "new"
    /\ SetBatch("lines", "", 1, 1, 0, 0, 0, FALSE)
    /\ UNCHANGED << bucketVars, autoVars, argVars, last_read, newVars, parseVars, runVars, followVars >>

\* lines 74-131: the reader yields a line
ReadLine ==
    /\ pc = "lines"
    /\ lines_processed < MaxLines
    /\ \E line \in Lines :
        LET lp == lines_processed + 1
            mlp == IF line.matches THEN matching_lines_processed + 1
                   ELSE matching_lines_processed
        IN  /\ last_read' = line
            /\ IF line.matches /\ IsSome(line.ts)
               THEN /\ NumAdded < MaxAdds
                    /\ add(Unwrap(line.ts))
                    /\ SetBatch(IF panicked' THEN "panicked" ELSE "lines", "",
                                file_idx, total_files_processed,
                                files_with_matches, lp, mlp, TRUE)
               ELSE /\ UNCHANGED bucketVars
                    /\ IF line.matches /\ EarlyExit(mlp, timestamp_found)
                       THEN IF fail_quick
                            THEN Bail(NoTimestampsDetected, lp, mlp, timestamp_found)
                            ELSE PostLoop(lp, mlp, timestamp_found)
                       ELSE SetBatch("lines", "", file_idx, total_files_processed,
                                     files_with_matches, lp, mlp, timestamp_found)
    /\ UNCHANGED << autoVars, argVars, newVars, parseVars, runVars, followVars >>

\* the reader is exhausted: lines 133-195
EndOfSource ==
    /\ pc = "lines"
    /\ last_read' = EndOfFile
    /\ PostLoop(lines_processed, matching_lines_processed, timestamp_found)
    /\ UNCHANGED << bucketVars, autoVars, argVars, newVars, parseVars, runVars, followVars >>

\* LogProcessor::new
InitBatch ==
    /\ \E size \in BucketSizes : TimeBucketNew(size)
    /\ NoAutoCall
    /\ fail_quick \in BOOLEAN
    /\ time_format \in TimeFormats
    /\ readers \in 1..MaxFiles
    /\ BatchIdle
    /\ NoNewCall
    /\ NoParserCall
    /\ NoRun
    /\ NoFollow

NextBatch == RunBatchMode \/ ReadLine \/ EndOfSource

SpecBatch == InitBatch /\ [][NextBatch]_vars

\* ------------------------------------------- aggregator under any add calls
NoBatch ==
    /\ fail_quick = FALSE
    /\ time_format = None
    /\ readers = 1
    /\ BatchIdle
allBatchVars == << batchVars, argVars, last_read >>

InitBucket ==
    /\ \E size \in BucketSizes : TimeBucketNew(size)
    /\ NoAutoCall
    /\ NoBatch
    /\ NoNewCall
    /\ NoParserCall
    /\ NoRun
    /\ NoFollow

Add == /\ ~panicked
       /\ NumAdded < MaxAdds
       /\ \E t \in Instants : add(t)
       /\ UNCHANGED << autoVars, allBatchVars, newVars, parseVars, runVars, followVars >>

NextBucket == Add

SpecBucket == InitBucket /\ [][NextBucket]_vars

\* --------------------------------- calculate_auto_bucket_size on its own
\* spans: every small one, and the ones whose ideal width is just below, on
\* and just above a rung of the ladder, up to 30 days
AutoSpans ==
    (0..MaxSpanSeconds) \cup
    { 600, 899, 900, 901, 3000, 4499, 4500, 4501, 7500, 13499, 13500, 13501,
      30000, 53999, 54000, 54001, 90000, 323999, 324000, 324001, 500000,
      1295999, 1296000, 1296001, 1944000, 2591999, 2592000 }

InitAuto ==
    /\ TimeBucketNew(Auto)
    /\ span_seconds \in AutoSpans
    /\ auto_size = None
    /\ NoBatch
    /\ NoNewCall
    /\ NoParserCall
    /\ NoRun
    /\ NoFollow

CalculateAuto ==
    /\ IsNone(auto_size)
    /\ auto_size' = Some(calculate_auto_bucket_size(span_seconds))
    /\ UNCHANGED << bucketVars, span_seconds, allBatchVars, newVars,
                    parseVars, runVars, followVars >>

NextAuto == CalculateAuto

SpecAuto == InitAuto /\ [][NextAuto]_vars

\* ------------------------------------------------------------------- text
\* A Rust String is the sequence of its chars, each char a one-character
\* string.
UpperChars ==
    << "A", "B", "C", "D", "E", "F", "G", "H", "I", "J", "K", "L", "M",
       "N", "O", "P", "Q", "R", "S", "T", "U", "V", "W", "X", "Y", "Z" >>
LowerChars ==
    << "a", "b", "c", "d", "e", "f", "g", "h", "i", "j", "k", "l", "m",
       "n", "o", "p", "q", "r", "s", "t", "u", "v", "w", "x", "y", "z" >>
DigitChars == << "0", "1", "2", "3", "4", "5", "6", "7", "8", "9" >>

\* index of char c in the sequence of chars, 0 when it is not there
IndexIn(c, chars) ==
    IF \E i \in 1..Len(chars) : chars[i] = c
    THEN CHOOSE i \in 1..Len(chars) : chars[i] = c
    ELSE 0
IsDigit(c) == IndexIn(c, DigitChars) > 0
DigitVal(c) == IndexIn(c, DigitChars) - 1
AllDigits(s) == \A i \in 1..Len(s) : IsDigit(s[i])

\* the number a sequence of decimal digits denotes
RECURSIVE DigitsValue(_)
DigitsValue(s) ==
    IF s = << >> THEN 0
    ELSE 10 * DigitsValue(SubSeq(s, 1, Len(s) - 1)) + DigitVal(s[Len(s)])

RECURSIVE Pow10(_)
Pow10(k) == IF k = 0 THEN 1 ELSE 10 * Pow10(k - 1)

\* str::to_lowercase, on ASCII text
to_lowercase(s) ==
    [i \in 1..Len(s) |->
        IF IndexIn(s[i], UpperChars) > 0
        THEN LowerChars[IndexIn(s[i], UpperChars)]
        ELSE s[i]]

\* str::parse::<f64> on text without exponent, "inf" or "nan": an optional
\* sign, then digits with at most one point and at least one digit.  The
\* value is the exact fraction digits / 10^(digits after the point).
ParseF64(s) ==
    LET signed == s # << >> /\ s[1] \in { "+", "-" }
        body == IF signed THEN Tail(s) ELSE s
        points == { i \in 1..Len(body) : body[i] = "." }
        point == IF points = {} THEN Len(body) + 1
                 ELSE CHOOSE i \in points : TRUE
        whole == SubSeq(body, 1, point - 1)
        fraction == SubSeq(body, point + 1, Len(body))
        magnitude == DigitsValue(whole \o fraction)
    IN  IF /\ Cardinality(points) <= 1
           /\ AllDigits(whole) /\ AllDigits(fraction)
           /\ Len(whole) + Len(fraction) > 0
        THEN Some(F64(IF signed /\ s[1] = "-" THEN -magnitude ELSE magnitude,
                      Pow10(Len(fraction))))
        ELSE None

\* ------------------------------------------------- TimeBucket construction
\* the --bucket texts: "auto" in three spellings, "60", "0.5", "+1", "0",
\* "0.0", "0.0000001", "-60", "-0.5", "invalid", "60s", "1.2.3", "." and ""
BucketTexts ==
    { << "a", "u", "t", "o" >>, << "A", "U", "T", "O" >>,
      << "A", "u", "t", "o" >>, << "6", "0" >>, << "0", ".", "5" >>,
      << "+", "1" >>, << "0" >>, << "0", ".", "0" >>,
      << "0", ".", "0", "0", "0", "0", "0", "0", "1" >>, << "-", "6", "0" >>,
      << "-", "0", ".", "5" >>,
      << "i", "n", "v", "a", "l", "i", "d" >>, << "6", "0", "s" >>,
      << "1", ".", "2", ".", "3" >>, << "." >>, << >> }
BucketArgs == { None } \cup { Some(s) : s \in BucketTexts }

\* BucketSize::from_string: Some(size) for Ok(size), None for Err
from_string(s) ==
    IF to_lowercase(s) = << "a", "u", "t", "o" >>
    THEN Some(Auto)
    ELSE LET seconds == ParseF64(s)
         IN  IF IsSome(seconds)
             THEN Some([kind |-> "Seconds", s |-> Unwrap(seconds)])
             ELSE None

\* the fields before TimeBucket::new has run
Unbuilt == [kind |-> "Unbuilt", s |-> F64(0, 1)]

\* TimeBucket::new, lines 32-35: the size, None when from_string failed
NewSize(arg) ==
    IF IsSome(arg) THEN from_string(Unwrap(arg))
    ELSE Some(Seconds(DEFAULT_BUCKET_SECONDS, 1))

\* TimeBucket::new
New ==
    /\ built = "no"
    /\ LET size == NewSize(bucket_size_arg)
       IN  IF IsSome(size)
           THEN /\ built' = "ok"
                /\ bucket_size' = Unwrap(size)
           ELSE /\ built' = "err"
                /\ bucket_size' = bucket_size
    /\ buckets' = << >>
    /\ first_timestamp' = None
    /\ last_timestamp' = None
    /\ UNCHANGED << panicked, added, bucket_size_arg, returned >>
    /\ UNCHANGED << autoVars, allBatchVars, parseVars, runVars, followVars >>

\* instants handed to add() on the constructed aggregator: just before the
\* epoch, inside one second, half a minute and a quarter of an hour later
BuiltInstants == { -1, 0, 100000, 300000, 600000, 30000000, 900000000 }

\* add on the constructed aggregator
AddBuilt ==
    /\ built = "ok"
    /\ ~panicked
    /\ NumAdded < MaxBuiltAdds
    /\ \E t \in BuiltInstants : add(t)
    /\ returned' = [op |-> "add", value |-> None]
    /\ UNCHANGED << bucket_size_arg, built >>
    /\ UNCHANGED << autoVars, allBatchVars, parseVars, runVars, followVars >>

\* a call of a method that takes &self
ReadOnly(op, value) ==
    /\ built = "ok"
    /\ ~panicked
    /\ returned' = [op |-> op, value |-> value]
    /\ UNCHANGED << bucketVars, bucket_size_arg, built >>
    /\ UNCHANGED << autoVars, allBatchVars, parseVars, runVars, followVars >>

GetBuckets == ReadOnly("get_buckets", get_buckets)
TotalMatches == ReadOnly("total_matches", total_matches)
BucketSizeSeconds == ReadOnly("bucket_size_seconds", bucket_size_seconds)
TimeRange == ReadOnly("time_range", time_range)

InitTimeBucket ==
    /\ bucket_size_arg \in BucketArgs
    /\ built = "no"
    /\ returned = NoReturn
    /\ TimeBucketNew(Unbuilt)
    /\ NoAutoCall
    /\ NoBatch
    /\ NoParserCall
    /\ NoRun
    /\ NoFollow

NextTimeBucket ==
    New \/ AddBuilt \/ GetBuckets \/ TotalMatches \/ BucketSizeSeconds
        \/ TimeRange

SpecTimeBucket == InitTimeBucket /\ [][NextTimeBucket]_vars

\* ------------------------------------------------- regular expressions
\* A char that takes more than one byte in UTF-8 is written by its code
\* point: "U+00E9" (2 bytes), "U+20AC" (3 bytes).
ByteLen(c) == IF c = "U+00E9" THEN 2 ELSE IF c = "U+20AC" THEN 3 ELSE 1
RECURSIVE ByteLength(_)
\* str::len: the length in bytes
ByteLength(s) == IF s = << >> THEN 0 ELSE ByteLen(Head(s)) + ByteLength(Tail(s))

SeqSet(chars) == { chars[i] : i \in 1..Len(chars) }
DigitSet == SeqSet(DigitChars)
UpperSet == SeqSet(UpperChars)
LowerSet == SeqSet(LowerChars)
SpaceSet == { " ", "\t" }

\* A pattern is a sequence of nodes.  Rep(cs, lo, hi) matches lo to hi chars
\* of the set cs, as many as possible; Opt(alts) is the group (?:a|b|...)?,
\* which takes the first alternative that lets the rest match, else nothing.
Many == 1000
Rep(cs, lo, hi) == [k |-> "rep", cs |-> cs, lo |-> lo, hi |-> hi, alts |-> << >>]
Lit(c) == Rep({ c }, 1, 1)
Opt(alts) == [k |-> "opt", cs |-> {}, lo |-> 0, hi |-> 0, alts |-> alts]
D(n) == Rep(DigitSet, n, n)
Fraction == Opt(<< << Lit("."), Rep(DigitSet, 1, Many) >> >>)
Clock == << D(2), Lit(":"), D(2), Lit(":"), D(2) >>
Mon == << Rep(UpperSet, 1, 1), Rep(LowerSet, 2, 2) >>
Blank == Rep(SpaceSet, 1, Many)

\* number of chars of cs that s holds from pos on, at most hi
RunLength(cs, s, pos, hi) ==
    LET left == IF pos > Len(s) THEN 0 ELSE Len(s) - pos + 1
        most == IF left < hi THEN left ELSE hi
    IN  Max({ n \in 0..most : \A i \in 0..(n - 1) : s[pos + i] \in cs })

\* The position behind the match of pat that starts at pos, 0 when there is
\* none: the match a backtracking search finds first.  TryCounts gives a Rep
\* node n chars, then n - 1, ... down to lo; TryAlts gives an Opt node its
\* alternatives from the i-th on, then nothing.
RECURSIVE MatchEnd(_, _, _), TryCounts(_, _, _, _, _), TryAlts(_, _, _, _, _)
TryCounts(rest, s, pos, n, lo) ==
    IF n < lo THEN 0
    ELSE LET end == MatchEnd(rest, s, pos + n)
         IN  IF end # 0 THEN end ELSE TryCounts(rest, s, pos, n - 1, lo)
TryAlts(alts, i, rest, s, pos) ==
    IF i > Len(alts) THEN MatchEnd(rest, s, pos)
    ELSE LET end == MatchEnd(alts[i] \o rest, s, pos)
         IN  IF end # 0 THEN end ELSE TryAlts(alts, i + 1, rest, s, pos)
MatchEnd(pat, s, pos) ==
    IF pat = << >> THEN pos
    ELSE LET node == Head(pat)
         IN  IF node.k = "opt"
             THEN TryAlts(node.alts, 1, Tail(pat), s, pos)
             ELSE TryCounts(Tail(pat), s, pos,
                            RunLength(node.cs, s, pos, node.hi), node.lo)

\* Regex::find: the leftmost match, as Some([start, text]) with the byte
\* offset of its first char, or None.  An anchored pattern (^) can only
\* match at the start of the text.
Find(pat, anchored, s) ==
    LET starts == IF anchored THEN { 1 } ELSE 1..(Len(s) + 1)
        hits == { pos \in starts : MatchEnd(pat, s, pos) # 0 }
    IN  IF hits = {} THEN None
        ELSE LET pos == Min(hits)
             IN  Some([start |-> ByteLength(SubSeq(s, 1, pos - 1)),
                       text |-> SubSeq(s, pos, MatchEnd(pat, s, pos) - 1)])

\* TimestampParser::new, lines 53-73: the eight expressions
iso_regex ==
    << Rep(DigitSet, 2, 4), Lit("-"), D(2), Lit("-"), D(2),
       Rep({ "T", " " }, 1, 1) >> \o Clock \o
    << Fraction,
       Opt(<< << Lit("Z") >>,
              << Rep({ "+", "-" }, 1, 1), D(2), Lit(":"), D(2) >> >>) >>
datetime_regex ==
    << Rep(DigitSet, 1, 2), Rep({ "-", "/" }, 1, 1), Rep(DigitSet, 1, 2),
       Rep({ "-", "/" }, 1, 1), Rep(DigitSet, 2, 4), Blank >> \o Clock \o
    << Fraction >>
syslog_regex == Mon \o << Blank, Rep(DigitSet, 1, 2), Blank >> \o Clock
apache_regex ==
    << Lit("["), D(2), Lit("/") >> \o Mon \o << Lit("/"), D(4), Lit(":") >>
    \o Clock \o << Blank, Rep({ "+", "-" }, 1, 1), D(4), Lit("]") >>
rfc2822_regex ==
    Mon \o << Lit(","), Blank, D(2), Blank >> \o Mon \o << Blank, D(4), Blank >>
    \o Clock
unix_timestamp_regex == << D(10), Fraction >>
yearless_iso_regex ==
    << D(2), Lit("-"), D(2), Lit("T") >> \o Clock \o
    << Fraction, Opt(<< << Lit("Z") >> >>) >>
time_only_regex == Clock \o << Fraction >>

\* ------------------------------------------------- chrono format parsing
\* A format is the sequence of its items: a specifier "%Y", "%m", "%d",
\* "%H", "%M", "%S", "%.f", "%:z", "%z", "%b", "%a", or a literal char.
\* lines 5-33
COMMON_FORMATS ==
    <<
       \* %Y-%m-%dT%H:%M:%S%.fZ
       << "%Y", "-", "%m", "-", "%d", "T", "%H", ":", "%M", ":", "%S", "%.f", "Z" >>,
       \* %Y-%m-%dT%H:%M:%S%.f%:z
       << "%Y", "-", "%m", "-", "%d", "T", "%H", ":", "%M", ":", "%S", "%.f", "%:z" >>,
       \* %Y-%m-%dT%H:%M:%S%:z
       << "%Y", "-", "%m", "-", "%d", "T", "%H", ":", "%M", ":", "%S", "%:z" >>,
       \* %Y-%m-%dT%H:%M:%SZ
       << "%Y", "-", "%m", "-", "%d", "T", "%H", ":", "%M", ":", "%S", "Z" >>,
       \* %Y-%m-%dT%H:%M:%S%.f
       << "%Y", "-", "%m", "-", "%d", "T", "%H", ":", "%M", ":", "%S", "%.f" >>,
       \* %Y-%m-%dT%H:%M:%S
       << "%Y", "-", "%m", "-", "%d", "T", "%H", ":", "%M", ":", "%S" >>,
       \* %m-%dT%H:%M:%S%.fZ
       << "%m", "-", "%d", "T", "%H", ":", "%M", ":", "%S", "%.f", "Z" >>,
       \* %m-%dT%H:%M:%S%.f
       << "%m", "-", "%d", "T", "%H", ":", "%M", ":", "%S", "%.f" >>,
       \* %m-%dT%H:%M:%SZ
       << "%m", "-", "%d", "T", "%H", ":", "%M", ":", "%S", "Z" >>,
       \* %m-%dT%H:%M:%S
       << "%m", "-", "%d", "T", "%H", ":", "%M", ":", "%S" >>,
       \* %H:%M:%S%.f
       << "%H", ":", "%M", ":", "%S", "%.f" >>,
       \* %H:%M:%S
       << "%H", ":", "%M", ":", "%S" >>,
       \* %Y-%m-%d %H:%M:%S%.f
       << "%Y", "-", "%m", "-", "%d", " ", "%H", ":", "%M", ":", "%S", "%.f" >>,
       \* %Y-%m-%d %H:%M:%S
       << "%Y", "-", "%m", "-", "%d", " ", "%H", ":", "%M", ":", "%S" >>,
       \* %Y/%m/%d %H:%M:%S
       << "%Y", "/", "%m", "/", "%d", " ", "%H", ":", "%M", ":", "%S" >>,
       \* %d/%m/%Y %H:%M:%S
       << "%d", "/", "%m", "/", "%Y", " ", "%H", ":", "%M", ":", "%S" >>,
       \* %m/%d/%Y %H:%M:%S
       << "%m", "/", "%d", "/", "%Y", " ", "%H", ":", "%M", ":", "%S" >>,
       \* %b %d %H:%M:%S
       << "%b", " ", "%d", " ", "%H", ":", "%M", ":", "%S" >>,
       \* [%d/%b/%Y:%H:%M:%S %z]
       << "[", "%d", "/", "%b", "/", "%Y", ":", "%H", ":", "%M", ":", "%S", " ", "%z", "]" >>,
       \* %a, %d %b %Y %H:%M:%S
       << "%a", ",", " ", "%d", " ", "%b", " ", "%Y", " ", "%H", ":", "%M", ":", "%S" >>
    >>

\* str::contains and str::starts_with on a format, for whole specifiers
Contains(format, item) == \E i \in 1..Len(format) : format[i] = item
StartsWith(format, items) ==
    Len(format) >= Len(items) /\ SubSeq(format, 1, Len(items)) = items

\* str::trim
trim(s) ==
    LET kept == { i \in 1..Len(s) : s[i] \notin SpaceSet }
    IN  IF kept = {} THEN << >> ELSE SubSeq(s, Min(kept), Max(kept))

MonthNames == << << "j", "a", "n" >>, << "f", "e", "b" >>, << "m", "a", "r" >>, << "a", "p", "r" >>, << "m", "a", "y" >>, << "j", "u", "n" >>, << "j", "u", "l" >>, << "a", "u", "g" >>, << "s", "e", "p" >>, << "o", "c", "t" >>, << "n", "o", "v" >>, << "d", "e", "c" >> >>
DayNames == << << "m", "o", "n" >>, << "t", "u", "e" >>, << "w", "e", "d" >>, << "t", "h", "u" >>, << "f", "r", "i" >>, << "s", "a", "t" >>, << "s", "u", "n" >> >>

\* what chrono's Parsed holds while a text is scanned; next is the position
\* of the first char not yet consumed
Parsed0 ==
    [ok |-> TRUE, next |-> 1, year |-> None, month |-> None, day |-> None,
     hour |-> None, minute |-> None, second |-> None, nano |-> None,
     offset |-> None, weekday |-> None]
SkipSpace(s, pos) == pos + RunLength(SpaceSet, s, pos, Len(s))
FieldOf(item) ==
    CASE item = "%Y" -> "year" [] item = "%m" -> "month" [] item = "%d" -> "day"
      [] item = "%H" -> "hour" [] item = "%M" -> "minute" [] OTHER -> "second"

\* chrono::format::parse on one item, from parsed.next; ok is FALSE when the
\* text does not fit the item.  Numeric items skip leading white space and
\* take 1 to 2 digits (%Y: 1 to 4, or a sign and any number of digits).
ScanItem(item, s, parsed) ==
    LET pos == parsed.next
        fail == [parsed EXCEPT !.ok = FALSE]
        \* the digits from position from on, at most width of them
        Number(from, width, negative) ==
            LET run == RunLength(DigitSet, s, from, width)
            IN  IF run = 0 \/ run > 6 THEN fail
                ELSE [parsed EXCEPT
                         !.next = from + run,
                         ![FieldOf(item)] =
                             Some((IF negative THEN -1 ELSE 1)
                                  * DigitsValue(SubSeq(s, from, from + run - 1)))]
        \* a numeric item whose text starts at p, behind the white space
        Numeric(p) ==
            IF item = "%Y" /\ p <= Len(s) /\ s[p] \in { "+", "-" }
            THEN Number(p + 1, Len(s), s[p] = "-")
            ELSE Number(p, IF item = "%Y" THEN 4 ELSE 2, FALSE)
        \* an offset whose sign is at p and whose minutes start at q
        Offset(p, q) ==
            IF /\ p <= Len(s) /\ s[p] \in { "+", "-" }
               /\ RunLength(DigitSet, s, p + 1, 2) = 2
               /\ RunLength(DigitSet, s, q, 2) = 2
               /\ DigitsValue(SubSeq(s, p + 1, p + 2)) < 24
               /\ DigitsValue(SubSeq(s, q, q + 1)) < 60
            THEN [parsed EXCEPT
                     !.next = q + 2,
                     !.offset =
                         Some((IF s[p] = "-" THEN -1 ELSE 1)
                              * (60 * DigitsValue(SubSeq(s, p + 1, p + 2))
                                 + DigitsValue(SubSeq(s, q, q + 1))))]
            ELSE fail
        OffsetAt(p) ==
            Offset(p, p + 3 + RunLength(SpaceSet \cup { ":" }, s, p + 3, Len(s)))
        \* the month or weekday that names[index] abbreviates, 0 for none
        Name(index) ==
            IF pos + 2 <= Len(s) /\ index > 0
            THEN IF item = "%b"
                 THEN [parsed EXCEPT !.next = pos + 3, !.month = Some(index)]
                 ELSE [parsed EXCEPT !.next = pos + 3, !.weekday = Some(index)]
            ELSE fail
    IN  IF item \in { "%Y", "%m", "%d", "%H", "%M", "%S" }
        THEN Numeric(SkipSpace(s, pos))
        ELSE IF item = "%.f"
        THEN IF pos <= Len(s) /\ s[pos] = "."
             THEN LET run == RunLength(DigitSet, s, pos + 1, Len(s))
                      used == IF run > 9 THEN 9 ELSE run
                  IN  IF run = 0 THEN fail
                      ELSE [parsed EXCEPT
                               !.next = pos + 1 + run,
                               !.nano =
                                   Some(DigitsValue(SubSeq(s, pos + 1, pos + used))
                                        * Pow10(9 - used))]
             ELSE parsed
        ELSE IF item \in { "%:z", "%z" }
        THEN OffsetAt(SkipSpace(s, pos))
        ELSE IF item \in { "%b", "%a" }
        THEN Name(IndexIn(to_lowercase(SubSeq(s, pos, pos + 2)),
                          IF item = "%b" THEN MonthNames ELSE DayNames))
        ELSE IF item = " "
        THEN [parsed EXCEPT !.next = SkipSpace(s, pos)]
        ELSE IF pos <= Len(s) /\ s[pos] = item
             THEN [parsed EXCEPT !.next = pos + 1]
             ELSE fail

\* chrono::format::parse: the items in order, then the text must be used up
RECURSIVE ScanItems(_, _, _)
ScanItems(format, s, parsed) ==
    IF ~parsed.ok THEN parsed
    ELSE IF format = << >>
    THEN [parsed EXCEPT !.ok = parsed.next = Len(s) + 1]
    ELSE ScanItems(Tail(format), s, ScanItem(Head(format), s, parsed))

IsLeapYear(y) == y % 4 = 0 /\ (y % 100 # 0 \/ y % 400 = 0)
DaysInMonth(y, m) ==
    IF m = 2 THEN (IF IsLeapYear(y) THEN 29 ELSE 28)
    ELSE IF m \in { 4, 6, 9, 11 } THEN 30 ELSE 31
\* the day of the week, Monday = 1 .. Sunday = 7
Weekday(y, m, d) ==
    LET t == << 0, 3, 2, 5, 0, 3, 5, 1, 4, 6, 2, 4 >>
        yy == IF m < 3 THEN y - 1 ELSE y
        w == (yy + yy \div 4 - yy \div 100 + yy \div 400 + t[m] + d) % 7
    IN  IF w = 0 THEN 7 ELSE w

\* Parsed::to_naive_datetime_with_offset: Some(civil time) when the fields
\* name a date and a time of day that exist
ToNaive(parsed) ==
    IF /\ parsed.ok
       /\ IsSome(parsed.year) /\ IsSome(parsed.month) /\ IsSome(parsed.day)
       /\ IsSome(parsed.hour) /\ IsSome(parsed.minute)
       /\ Unwrap(parsed.month) \in 1..12
       /\ Unwrap(parsed.day) \in
              1..DaysInMonth(Unwrap(parsed.year), Unwrap(parsed.month))
       /\ Unwrap(parsed.hour) \in 0..23
       /\ Unwrap(parsed.minute) \in 0..59
       /\ IsSome(parsed.second) => Unwrap(parsed.second) \in 0..60
       /\ IsSome(parsed.weekday) =>
              Unwrap(parsed.weekday) =
                  Weekday(Unwrap(parsed.year), Unwrap(parsed.month),
                          Unwrap(parsed.day))
    THEN Some([year |-> Unwrap(parsed.year), month |-> Unwrap(parsed.month),
               day |-> Unwrap(parsed.day), hour |-> Unwrap(parsed.hour),
               minute |-> Unwrap(parsed.minute),
               second |-> IF IsSome(parsed.second) THEN Unwrap(parsed.second)
                          ELSE 0,
               nano |-> IF IsSome(parsed.nano) THEN Unwrap(parsed.nano) ELSE 0])
    ELSE None

\* An instant the parser returns: the civil time that was read and the
\* minutes east of UTC it was read at (0 for a text without offset), or the
\* whole seconds since the epoch as their decimal digits.
CivilInstant(civil, offset) ==
    [unix |-> << >>, civil |-> civil, offset |-> offset]
UnixInstant(digits) == [unix |-> digits, civil |-> << >>, offset |-> 0]

\* NaiveDateTime::parse_from_str(..).and_utc()
NaiveParse(s, format) ==
    LET and_utc(civil) ==
            IF IsSome(civil) THEN Some(CivilInstant(Unwrap(civil), 0)) ELSE None
    IN  and_utc(ToNaive(ScanItems(format, s, Parsed0)))

\* DateTime::parse_from_str(..).with_timezone(&Utc): needs an offset
OffsetParse(s, format) ==
    LET with_timezone(parsed, civil) ==
            IF IsSome(civil) /\ IsSome(parsed.offset)
            THEN Some(CivilInstant(Unwrap(civil), Unwrap(parsed.offset)))
            ELSE None
        to_datetime(parsed) == with_timezone(parsed, ToNaive(parsed))
    IN  to_datetime(ScanItems(format, s, Parsed0))

\* ------------------------------------------------------ timestamp parser
\* the bounds of line 160, as decimal digits
UNIX_AFTER == << "1", "0", "0", "0", "0", "0", "0", "0", "0", "0" >>
UNIX_BEFORE == << "9", "9", "9", "9", "9", "9", "9", "9", "9", "9" >>

\* a < b for two numbers given by their decimal digits without leading zeros
DigitsLess(a, b) ==
    \/ Len(a) < Len(b)
    \/ /\ Len(a) = Len(b)
       /\ \E i \in 1..Len(a) :
              /\ DigitVal(a[i]) < DigitVal(b[i])
              /\ \A j \in 1..(i - 1) : a[j] = b[j]
StripZeros(digits) ==
    LET nonzero == { i \in 1..Len(digits) : digits[i] # "0" }
    IN  IF nonzero = {} THEN << "0" >>
        ELSE SubSeq(digits, Min(nonzero), Len(digits))

\* str::parse::<i64>: Some([negative, digits]) for an optional sign and at
\* most 18 digits (every such number fits an i64), else None
ParseI64(s) ==
    LET signed == s # << >> /\ s[1] \in { "+", "-" }
        body == IF signed THEN Tail(s) ELSE s
    IN  IF body # << >> /\ AllDigits(body) /\ Len(StripZeros(body)) <= 18
        THEN Some([negative |-> signed /\ s[1] = "-" /\ StripZeros(body) # << "0" >>,
                   digits |-> StripZeros(body)])
        ELSE None

\* the decimal digits of n >= 0, padded with zeros to at least width chars
RECURSIVE ToDigits(_, _)
ToDigits(n, width) ==
    IF n < 10 /\ width <= 1 THEN << DigitChars[n + 1] >>
    ELSE Append(ToDigits(n \div 10, width - 1), DigitChars[(n % 10) + 1])

\* what parse_with_format returns: the instant, if any, and the branch
Parse(ts, via) == [ts |-> ts, via |-> via]

\* line 160: unix_ts > 1000000000 && unix_ts < 9999999999
UnixInRange(digits) ==
    DigitsLess(UNIX_AFTER, digits) /\ DigitsLess(digits, UNIX_BEFORE)

\* the year Utc::now() is in
CurrentYearBefore == now.year - 1
CurrentYear == now.year

\* parse_with_format, lines 155-212: each attempt returns when it parses,
\* else the next one is made
parse_with_format(text, format) ==
    LET trimmed == trim(text)
        unix_ts == ParseI64(trimmed)
        OrElse(parsed, via, rest) ==
            IF IsSome(parsed) THEN Parse(parsed, via) ELSE rest
        with_year ==
            IF Contains(format, "%b") /\ ~Contains(format, "%Y")
            THEN NaiveParse(ToDigits(CurrentYear, 1) \o << " " >> \o trimmed,
                            << "%Y", " " >> \o format)
            ELSE None
        with_year_dash ==
            IF StartsWith(format, << "%m", "-" >>) /\ ~Contains(format, "%Y")
            THEN NaiveParse(ToDigits(CurrentYear, 1) \o << "-" >> \o trimmed,
                            << "%Y", "-" >> \o format)
            ELSE None
        with_date ==
            IF /\ StartsWith(format, << "%H", ":" >>) /\ ~Contains(format, "%Y")
               /\ ~Contains(format, "%m") /\ ~Contains(format, "%d")
            THEN NaiveParse(ToDigits(now.year, 4) \o << "-" >>
                                \o ToDigits(now.month, 2) \o << "-" >>
                                \o ToDigits(now.day, 2) \o << " " >> \o trimmed,
                            << "%Y", "-", "%m", "-", "%d", " " >> \o format)
            ELSE None
    IN  IF /\ IsSome(unix_ts) /\ ~Unwrap(unix_ts).negative
           /\ UnixInRange(Unwrap(unix_ts).digits)
        THEN Parse(Some(UnixInstant(Unwrap(unix_ts).digits)), "unix")
        ELSE OrElse(OffsetParse(trimmed, format), "offset",
             OrElse(NaiveParse(trimmed, format), "naive",
             OrElse(with_year, "year",
             OrElse(with_year_dash, "year",
             OrElse(with_date, "date", Parse(None, ""))))))

\* the recognizer classes in the order of lines 105-146; the Unix class is
\* anchored and keeps a match only when it starts before byte 5
Recognizers ==
    << [name |-> "unix", regex |-> unix_timestamp_regex, anchored |-> TRUE],
       [name |-> "iso", regex |-> iso_regex, anchored |-> FALSE],
       [name |-> "apache", regex |-> apache_regex, anchored |-> FALSE],
       [name |-> "rfc2822", regex |-> rfc2822_regex, anchored |-> FALSE],
       [name |-> "datetime", regex |-> datetime_regex, anchored |-> FALSE],
       [name |-> "syslog", regex |-> syslog_regex, anchored |-> FALSE],
       [name |-> "yearless_iso", regex |-> yearless_iso_regex, anchored |-> FALSE],
       [name |-> "time_only", regex |-> time_only_regex, anchored |-> FALSE] >>
\* lines 105-146: one candidate per class that matches, in class order
RECURSIVE Recognized(_, _)
Recognized(classes, line) ==
    IF classes = << >> THEN << >>
    ELSE LET class == Head(classes)
             mat == Find(class.regex, class.anchored, line)
         IN  (IF IsSome(mat) /\ (class.name = "unix" => Unwrap(mat).start < 5)
              THEN << Unwrap(mat).text >> ELSE << >>)
             \o Recognized(Tail(classes), line)

\* byte index b falls between two chars of s (str::is_char_boundary)
IsCharBoundary(s, b) == \E k \in 0..Len(s) : ByteLength(SubSeq(s, 1, k)) = b
\* &s[..b] for a b that is a char boundary
BytePrefix(s, b) == SubSeq(s, 1, CHOOSE k \in 0..Len(s) : ByteLength(SubSeq(s, 1, k)) = b)
FALLBACK_MIN_BYTES == 10
FALLBACK_BYTES == 50

\* extract_timestamp_candidates, lines 101-153: the candidate list, or a
\* panic of the slice in line 149
extract_timestamp_candidates(line) ==
    LET candidates == Recognized(Recognizers, line)
        len == ByteLength(line)
        end == IF len < FALLBACK_BYTES THEN len ELSE FALLBACK_BYTES
    IN  IF candidates = << >> /\ len >= FALLBACK_MIN_BYTES
        THEN IF IsCharBoundary(line, end)
             THEN [panic |-> FALSE, list |-> << BytePrefix(line, end) >>]
             ELSE [panic |-> TRUE, list |-> << >>]
        ELSE [panic |-> FALSE, list |-> candidates]

\* lines 92-97 with the loops exchanged: every candidate is tried with one
\* format before the next format is looked at
RECURSIVE FormatsFirst(_, _, _)
FormatsFirst(candidates, c, f) ==
    IF f > Len(COMMON_FORMATS) THEN Returned("parse_line", "none", NoInstant, 0, 0, "")
    ELSE IF c > Len(candidates) THEN FormatsFirst(candidates, 1, f + 1)
    ELSE LET Tried(parsed) ==
                 IF IsSome(parsed.ts)
                 THEN Returned("parse_line", "some", Unwrap(parsed.ts), c, f,
                               parsed.via)
                 ELSE FormatsFirst(candidates, c + 1, f)
         IN  Tried(parse_with_format(candidates[c], COMMON_FORMATS[f]))

\* lines 92-97: for candidate in candidates { for format in COMMON_FORMATS }
RECURSIVE CandidatesFirst(_, _, _)
CandidatesFirst(candidates, c, f) ==
    IF c > Len(candidates) THEN Returned("parse_line", "none", NoInstant, 0, 0, "")
    ELSE IF f > Len(COMMON_FORMATS) THEN CandidatesFirst(candidates, c + 1, 1)
    ELSE LET Tried(parsed) ==
                 IF IsSome(parsed.ts)
                 THEN Returned("parse_line", "some", Unwrap(parsed.ts), c, f,
                               parsed.via)
                 ELSE CandidatesFirst(candidates, c, f + 1)
         IN  Tried(parse_with_format(candidates[c], COMMON_FORMATS[f]))

\* lines 80-84 returning None when the custom format does not fit the line
parse_line_custom_only(line) ==
    LET FromCustom(custom) ==
            IF IsSome(custom.ts)
            THEN Returned("parse_line", "some", Unwrap(custom.ts), 0, 0,
                          custom.via)
            ELSE Returned("parse_line", "none", NoInstant, 0, 0, "")
    IN  IF IsSome(custom_format)
        THEN FromCustom(parse_with_format(line, Unwrap(custom_format)))
        ELSE CandidatesFirst(extract_timestamp_candidates(line).list, 1, 1)

\* parse_line, lines 78-99
parse_line(line) ==
    LET FromCandidates(candidates) ==
            IF candidates.panic
            THEN Returned("parse_line", "panic", NoInstant, 0, 0, "")
            ELSE CandidatesFirst(candidates.list, 1, 1)
        FromCustom(custom) ==
            IF IsSome(custom.ts)
            THEN Returned("parse_line", "some", Unwrap(custom.ts), 0, 0,
                          custom.via)
            ELSE FromCandidates(extract_timestamp_candidates(line))
    IN  FromCustom(IF IsSome(custom_format)
                   THEN parse_with_format(line, Unwrap(custom_format))
                   ELSE Parse(None, ""))

\* --------------------------------------------------------- parser inputs
\* Created: 2025-10-03 14:30:45, Updated: 2025-10-04 15:45:30
LineTwoIso ==
    << "C", "r", "e", "a", "t", "e", "d", ":", " ", "2", "0", "2", "5", "-",
       "1", "0", "-", "0", "3", " ", "1", "4", ":", "3", "0", ":", "4", "5",
       ",", " ", "U", "p", "d", "a", "t", "e", "d", ":", " ", "2", "0", "2",
       "5", "-", "1", "0", "-", "0", "4", " ", "1", "5", ":", "4", "5", ":",
       "3", "0" >>
\* Oct 03 14:30:45 host created=2025-10-04T15:45:30Z
LineSyslogThenIso ==
    << "O", "c", "t", " ", "0", "3", " ", "1", "4", ":", "3", "0", ":", "4",
       "5", " ", "h", "o", "s", "t", " ", "c", "r", "e", "a", "t", "e", "d",
       "=", "2", "0", "2", "5", "-", "1", "0", "-", "0", "4", "T", "1", "5",
       ":", "4", "5", ":", "3", "0", "Z" >>
\* 2025-13-45T14:30:45 then Oct 03 14:30:45
LineBadIsoThenSyslog ==
    << "2", "0", "2", "5", "-", "1", "3", "-", "4", "5", "T", "1", "4", ":",
       "3", "0", ":", "4", "5", " ", "t", "h", "e", "n", " ", "O", "c", "t",
       " ", "0", "3", " ", "1", "4", ":", "3", "0", ":", "4", "5" >>
\* 03/10/2025 14:30:45 slash
LineSlashDate ==
    << "0", "3", "/", "1", "0", "/", "2", "0", "2", "5", " ", "1", "4", ":",
       "3", "0", ":", "4", "5", " ", "s", "l", "a", "s", "h" >>
\* Oct 03 14:30:45 myserver app: INFO message
LineSyslog ==
    << "O", "c", "t", " ", "0", "3", " ", "1", "4", ":", "3", "0", ":", "4",
       "5", " ", "m", "y", "s", "e", "r", "v", "e", "r", " ", "a", "p", "p",
       ":", " ", "I", "N", "F", "O", " ", "m", "e", "s", "s", "a", "g", "e" >>
\* 09-24T23:45:29.362Z| INFO| Some random logline
LineYearlessIso ==
    << "0", "9", "-", "2", "4", "T", "2", "3", ":", "4", "5", ":", "2", "9",
       ".", "3", "6", "2", "Z", "|", " ", "I", "N", "F", "O", "|", " ", "S",
       "o", "m", "e", " ", "r", "a", "n", "d", "o", "m", " ", "l", "o", "g",
       "l", "i", "n", "e" >>
\* [INFO] 05:40:12.123 something
LineTimeOnly ==
    << "[", "I", "N", "F", "O", "]", " ", "0", "5", ":", "4", "0", ":", "1",
       "2", ".", "1", "2", "3", " ", "s", "o", "m", "e", "t", "h", "i", "n",
       "g" >>
\* 1727962496
LineUnix ==
    << "1", "7", "2", "7", "9", "6", "2", "4", "9", "6" >>
\* 1000000000
LineUnixLow ==
    << "1", "0", "0", "0", "0", "0", "0", "0", "0", "0" >>
\* 9999999999
LineUnixHigh ==
    << "9", "9", "9", "9", "9", "9", "9", "9", "9", "9" >>
\* 999999999
LineUnixBelow ==
    << "9", "9", "9", "9", "9", "9", "9", "9", "9" >>
\* 10000000000
LineUnixAbove ==
    << "1", "0", "0", "0", "0", "0", "0", "0", "0", "0", "0" >>
\* a line of forty-eight bytes without a time stampxU+00E9 and more
LineSplitChar ==
    << "a", " ", "l", "i", "n", "e", " ", "o", "f", " ", "f", "o", "r", "t",
       "y", "-", "e", "i", "g", "h", "t", " ", "b", "y", "t", "e", "s", " ",
       "w", "i", "t", "h", "o", "u", "t", " ", "a", " ", "t", "i", "m", "e",
       " ", "s", "t", "a", "m", "p", "x", "U+00E9", " ", "a", "n", "d", " ",
       "m", "o", "r", "e" >>
\* a line of forty-eight bytes without a time stampU+00E9 and more text
LineWholeChar ==
    << "a", " ", "l", "i", "n", "e", " ", "o", "f", " ", "f", "o", "r", "t",
       "y", "-", "e", "i", "g", "h", "t", " ", "b", "y", "t", "e", "s", " ",
       "w", "i", "t", "h", "o", "u", "t", " ", "a", " ", "t", "i", "m", "e",
       " ", "s", "t", "a", "m", "p", "U+00E9", " ", "a", "n", "d", " ", "m",
       "o", "r", "e", " ", "t", "e", "x", "t" >>

\* 2025/10/03 14:30:45 - Custom log entry
LineCustomEntry ==
    << "2", "0", "2", "5", "/", "1", "0", "/", "0", "3", " ", "1", "4", ":",
       "3", "0", ":", "4", "5", " ", "-", " ", "C", "u", "s", "t", "o", "m",
       " ", "l", "o", "g", " ", "e", "n", "t", "r", "y" >>
\* job: 1727962496 done
LineUnixAtFive ==
    << "j", "o", "b", ":", " ", "1", "7", "2", "7", "9", "6", "2", "4", "9",
       "6", " ", "d", "o", "n", "e" >>
\* ab 1727962496 near the start
LineUnixAtThree ==
    << "a", "b", " ", "1", "7", "2", "7", "9", "6", "2", "4", "9", "6", " ",
       "n", "e", "a", "r", " ", "t", "h", "e", " ", "s", "t", "a", "r", "t"
       >>

OtherLines ==
    {
      \* 2025-10-03T14:30:45Z INFO Test message
      << "2", "0", "2", "5", "-", "1", "0", "-", "0", "3", "T", "1", "4",
         ":", "3", "0", ":", "4", "5", "Z", " ", "I", "N", "F", "O", " ",
         "T", "e", "s", "t", " ", "m", "e", "s", "s", "a", "g", "e" >>,
      \* 2025-10-03 14:30:45 INFO Test
      << "2", "0", "2", "5", "-", "1", "0", "-", "0", "3", " ", "1", "4",
         ":", "3", "0", ":", "4", "5", " ", "I", "N", "F", "O", " ", "T",
         "e", "s", "t" >>,
      \* 2025-10-03T14:30:45.123+02:00 x
      << "2", "0", "2", "5", "-", "1", "0", "-", "0", "3", "T", "1", "4",
         ":", "3", "0", ":", "4", "5", ".", "1", "2", "3", "+", "0", "2",
         ":", "0", "0", " ", "x" >>,
      \* 25-10-03 14:30:45 two digit year
      << "2", "5", "-", "1", "0", "-", "0", "3", " ", "1", "4", ":", "3",
         "0", ":", "4", "5", " ", "t", "w", "o", " ", "d", "i", "g", "i",
         "t", " ", "y", "e", "a", "r" >>,
      \* 2025/10/03 14:30:45
      << "2", "0", "2", "5", "/", "1", "0", "/", "0", "3", " ", "1", "4",
         ":", "3", "0", ":", "4", "5" >>,
      \* 12:00:01 job at 2025-10-03 14:30:45
      << "1", "2", ":", "0", "0", ":", "0", "1", " ", "j", "o", "b", " ",
         "a", "t", " ", "2", "0", "2", "5", "-", "1", "0", "-", "0", "3",
         " ", "1", "4", ":", "3", "0", ":", "4", "5" >>,
      \* Feb 29 12:00:00 host app: leap
      << "F", "e", "b", " ", "2", "9", " ", "1", "2", ":", "0", "0", ":",
         "0", "0", " ", "h", "o", "s", "t", " ", "a", "p", "p", ":", " ",
         "l", "e", "a", "p" >>,
      \* Oct  3 14:30:45 host one digit day
      << "O", "c", "t", " ", " ", "3", " ", "1", "4", ":", "3", "0", ":",
         "4", "5", " ", "h", "o", "s", "t", " ", "o", "n", "e", " ", "d",
         "i", "g", "i", "t", " ", "d", "a", "y" >>,
      \* 12-31T00:00:00.000Z| x
      << "1", "2", "-", "3", "1", "T", "0", "0", ":", "0", "0", ":", "0",
         "0", ".", "0", "0", "0", "Z", "|", " ", "x" >>,
      \* 05:40:12 plain
      << "0", "5", ":", "4", "0", ":", "1", "2", " ", "p", "l", "a", "i",
         "n" >>,
      \* 05:40:60 leap second
      << "0", "5", ":", "4", "0", ":", "6", "0", " ", "l", "e", "a", "p",
         " ", "s", "e", "c", "o", "n", "d" >>,
      \* 25:40:12 bad hour
      << "2", "5", ":", "4", "0", ":", "1", "2", " ", "b", "a", "d", " ",
         "h", "o", "u", "r" >>,
      \* 127.0.0.1 - - [03/Oct/2025:14:30:45 +0200] GET /
      << "1", "2", "7", ".", "0", ".", "0", ".", "1", " ", "-", " ", "-",
         " ", "[", "0", "3", "/", "O", "c", "t", "/", "2", "0", "2", "5",
         ":", "1", "4", ":", "3", "0", ":", "4", "5", " ", "+", "0", "2",
         "0", "0", "]", " ", "G", "E", "T", " ", "/" >>,
      \* Fri, 03 Oct 2025 14:30:45 GMT hello
      << "F", "r", "i", ",", " ", "0", "3", " ", "O", "c", "t", " ", "2",
         "0", "2", "5", " ", "1", "4", ":", "3", "0", ":", "4", "5", " ",
         "G", "M", "T", " ", "h", "e", "l", "l", "o" >>,
      \* Sat, 03 Oct 2025 14:30:45 GMT wrong day
      << "S", "a", "t", ",", " ", "0", "3", " ", "O", "c", "t", " ", "2",
         "0", "2", "5", " ", "1", "4", ":", "3", "0", ":", "4", "5", " ",
         "G", "M", "T", " ", "w", "r", "o", "n", "g", " ", "d", "a", "y" >>,
      \* 1727962496 INFO epoch
      << "1", "7", "2", "7", "9", "6", "2", "4", "9", "6", " ", "I", "N",
         "F", "O", " ", "e", "p", "o", "c", "h" >>,
      \* 1727962496.123 INFO epoch
      << "1", "7", "2", "7", "9", "6", "2", "4", "9", "6", ".", "1", "2",
         "3", " ", "I", "N", "F", "O", " ", "e", "p", "o", "c", "h" >>,
      \*   1727962496 indented
      << " ", " ", "1", "7", "2", "7", "9", "6", "2", "4", "9", "6", " ",
         "i", "n", "d", "e", "n", "t", "e", "d" >>,
      \*  1727962496 
      << " ", "1", "7", "2", "7", "9", "6", "2", "4", "9", "6", " " >>,
      \* 1000000001 x
      << "1", "0", "0", "0", "0", "0", "0", "0", "0", "1", " ", "x" >>,
      \* 9999999998 x
      << "9", "9", "9", "9", "9", "9", "9", "9", "9", "8", " ", "x" >>,
      \* 0999999999 x
      << "0", "9", "9", "9", "9", "9", "9", "9", "9", "9", " ", "x" >>,
      \* 123456
      << "1", "2", "3", "4", "5", "6" >>,
      \* 99999999999
      << "9", "9", "9", "9", "9", "9", "9", "9", "9", "9", "9" >>,
      \* Just a line with no timestamp
      << "J", "u", "s", "t", " ", "a", " ", "l", "i", "n", "e", " ", "w",
         "i", "t", "h", " ", "n", "o", " ", "t", "i", "m", "e", "s", "t",
         "a", "m", "p" >>,
      \* short
      << "s", "h", "o", "r", "t" >>,
      \* a line of sixty bytes that holds no time stamp of any kind at all
      << "a", " ", "l", "i", "n", "e", " ", "o", "f", " ", "s", "i", "x",
         "t", "y", " ", "b", "y", "t", "e", "s", " ", "t", "h", "a", "t",
         " ", "h", "o", "l", "d", "s", " ", "n", "o", " ", "t", "i", "m",
         "e", " ", "s", "t", "a", "m", "p", " ", "o", "f", " ", "a", "n",
         "y", " ", "k", "i", "n", "d", " ", "a", "t", " ", "a", "l", "l" >>,
      \* a line of forty-eight bytes without a time stampxU+20AC and more
      << "a", " ", "l", "i", "n", "e", " ", "o", "f", " ", "f", "o", "r",
         "t", "y", "-", "e", "i", "g", "h", "t", " ", "b", "y", "t", "e",
         "s", " ", "w", "i", "t", "h", "o", "u", "t", " ", "a", " ", "t",
         "i", "m", "e", " ", "s", "t", "a", "m", "p", "x", "U+20AC", " ",
         "a", "n", "d", " ", "m", "o", "r", "e" >>,
      \* U+00E9 U+00E9 U+00E9 U+00E9 U+00E9 U+00E9 U+00E9 U+00E9 U+00E9 U+00E9 U+00E9 U+00E9 U+00E9 U+00E9 U+00E9 U+00E9 U+00E9 U+00E9 U+00E9 U+00E9 U+00E9 U+00E9 U+00E9 U+00E9 U+00E9 U+00E9 U+00E9 U+00E9 U+00E9 U+00E9 
      << "U+00E9", " ", "U+00E9", " ", "U+00E9", " ", "U+00E9", " ",
         "U+00E9", " ", "U+00E9", " ", "U+00E9", " ", "U+00E9", " ",
         "U+00E9", " ", "U+00E9", " ", "U+00E9", " ", "U+00E9", " ",
         "U+00E9", " ", "U+00E9", " ", "U+00E9", " ", "U+00E9", " ",
         "U+00E9", " ", "U+00E9", " ", "U+00E9", " ", "U+00E9", " ",
         "U+00E9", " ", "U+00E9", " ", "U+00E9", " ", "U+00E9", " ",
         "U+00E9", " ", "U+00E9", " ", "U+00E9", " ", "U+00E9", " ",
         "U+00E9", " ", "U+00E9", " " >>,
      \* U+00E9 2025-10-03T14:30:45Z U+00E9U+00E9U+00E9U+00E9U+00E9U+00E9U+00E9U+00E9U+00E9U+00E9U+00E9U+00E9U+00E9U+00E9U+00E9U+00E9U+00E9U+00E9U+00E9U+00E9U+00E9U+00E9U+00E9U+00E9U+00E9U+00E9U+00E9U+00E9U+00E9U+00E9
      << "U+00E9", " ", "2", "0", "2", "5", "-", "1", "0", "-", "0", "3",
         "T", "1", "4", ":", "3", "0", ":", "4", "5", "Z", " ", "U+00E9",
         "U+00E9", "U+00E9", "U+00E9", "U+00E9", "U+00E9", "U+00E9",
         "U+00E9", "U+00E9", "U+00E9", "U+00E9", "U+00E9", "U+00E9",
         "U+00E9", "U+00E9", "U+00E9", "U+00E9", "U+00E9", "U+00E9",
         "U+00E9", "U+00E9", "U+00E9", "U+00E9", "U+00E9", "U+00E9",
         "U+00E9", "U+00E9", "U+00E9", "U+00E9", "U+00E9" >>,
      \* ERROR\tOct 03 14:30:45\ttabs
      << "E", "R", "R", "O", "R", "\t", "O", "c", "t", " ", "0", "3", " ",
         "1", "4", ":", "3", "0", ":", "4", "5", "\t", "t", "a", "b", "s" >>,
      \* -5 degrees at noon, no stamp
      << "-", "5", " ", "d", "e", "g", "r", "e", "e", "s", " ", "a", "t",
         " ", "n", "o", "o", "n", ",", " ", "n", "o", " ", "s", "t", "a",
         "m", "p" >>
    }

ParseLines ==
    { LineTwoIso, LineSyslogThenIso, LineBadIsoThenSyslog,
      LineSlashDate, LineSyslog, LineYearlessIso,
      LineTimeOnly, LineUnix, LineUnixLow,
      LineUnixHigh, LineUnixBelow, LineUnixAbove,
      LineSplitChar, LineWholeChar, LineCustomEntry,
      LineUnixAtFive, LineUnixAtThree }
        \cup OtherLines

\* --time-format: none, or "%Y/%m/%d %H:%M:%S"
CustomFormats ==
    { None,
      Some(<< "%Y", "/", "%m", "/", "%d", " ", "%H", ":", "%M", ":", "%S" >>) }
\* the UTC date of the call: a day of an ordinary year, and the leap day
Nows ==
    { [year |-> 2026, month |-> 11, day |-> 4],
      [year |-> 2028, month |-> 2, day |-> 29] }

\* TimestampParser::parse_line on the input line
ParseLine ==
    /\ parse_result = NotCalled
    /\ parse_result' = parse_line(input_line)
    /\ UNCHANGED << input_line, custom_format, now >>
    /\ UNCHANGED << bucketVars, autoVars, allBatchVars, newVars, runVars,
                    followVars >>

\* TimestampParser::parse_with_format on the input line as the text, with the
\* empty format (format 0) or a format of the table
ParseWithFormat ==
    /\ parse_result = NotCalled
    /\ \E f \in 0..Len(COMMON_FORMATS) :
        LET Result(parsed) ==
                IF IsSome(parsed.ts)
                THEN Returned("parse_with_format", "some", Unwrap(parsed.ts),
                              0, f, parsed.via)
                ELSE Returned("parse_with_format", "none", NoInstant, 0, f, "")
        IN  parse_result' =
                Result(parse_with_format(
                           input_line,
                           IF f = 0 THEN << >> ELSE COMMON_FORMATS[f]))
    /\ UNCHANGED << input_line, custom_format, now >>
    /\ UNCHANGED << bucketVars, autoVars, allBatchVars, newVars, runVars,
                    followVars >>

InitParse ==
    /\ input_line \in ParseLines
    /\ custom_format \in CustomFormats
    /\ now \in Nows
    /\ parse_result = NotCalled
    /\ TimeBucketNew(Seconds(DEFAULT_BUCKET_SECONDS, 1))
    /\ NoAutoCall
    /\ NoBatch
    /\ NoNewCall
    /\ NoRun
    /\ NoFollow

NextParse == ParseLine \/ ParseWithFormat

SpecParse == InitParse /\ [][NextParse]_vars

\* ------------------------------------------------ the processor's dispatch
\* Regex::new on the patterns of the model: a dot is any character but a
\* line feed, every other character of a pattern is itself
AnyChar ==
    UpperSet \cup LowerSet \cup DigitSet \cup SpaceSet \cup { ":", "-", ".", "/" }
RECURSIVE RegexNew(_)
RegexNew(text) ==
    IF text = << >> THEN << >>
    ELSE << IF Head(text) = "." THEN Rep(AnyChar, 1, 1) ELSE Lit(Head(text)) >>
             \o RegexNew(Tail(text))

\* Args::validate: TRUE for Ok
validate(a) == ~(IsNone(a.pattern) /\ ~a.no_default_pattern)
RegexRequired == "REGEX pattern is required unless --no-default-pattern is set"

\* Args::get_pattern
get_pattern(a) == IF a.no_default_pattern THEN None ELSE a.pattern

\* Args::get_files
get_files(a) ==
    IF a.no_default_pattern /\ IsSome(a.pattern)
    THEN << Unwrap(a.pattern) >> \o a.files
    ELSE a.files

\* LogProcessor::new, lines 23-33: the primary pattern, then the --grep
\* patterns
RECURSIVE Compiled(_)
Compiled(texts) ==
    IF texts = << >> THEN << >>
    ELSE << RegexNew(Head(texts)) >> \o Compiled(Tail(texts))
NewPatterns(a) ==
    (IF IsSome(get_pattern(a)) THEN << RegexNew(Unwrap(get_pattern(a))) >>
     ELSE << >>) \o Compiled(a.grep)

\* a line passes only when every pattern matches it
matches_every_pattern(ps, line) ==
    \A i \in 1..Len(ps) : IsSome(Find(ps[i], FALSE, line))

\* LogProcessor::matches_patterns
matches_patterns(ps, line) ==
    IF ps = << >> THEN TRUE
    ELSE \E i \in 1..Len(ps) : IsSome(Find(ps[i], FALSE, line))

\* create_readers: the source of each reader, None for the standard input
RECURSIVE SourcesOf(_)
SourcesOf(files) ==
    IF files = << >> THEN << >>
    ELSE << Some(Head(files)) >> \o SourcesOf(Tail(files))
create_readers(files) == IF files = << >> THEN << None >> ELSE SourcesOf(files)

\* what run_batch_mode reads
BatchSources(a) == create_readers(get_files(a))
SingleFileOnly == "Follow mode only supports a single file"
\* what run_follow_mode reads, None when it bails
FollowSources(a) ==
    IF a.files = << >> THEN Some(<< None >>)
    ELSE IF Len(a.files) > 1 THEN None
    ELSE Some(<< Some(a.files[1]) >>)

\* DateTime::timestamp_micros of an instant the parser returned
DaysFromCivil(y, m, d) ==
    LET yy == IF m <= 2 THEN y - 1 ELSE y
        era == FloorDiv(yy, 400)
        yoe == yy - era * 400
        mp == IF m > 2 THEN m - 3 ELSE m + 9
        doy == (153 * mp + 2) \div 5 + d - 1
        doe == yoe * 365 + yoe \div 4 - yoe \div 100 + doy
    IN  era * 146097 + doe - 719468
timestamp_micros(ts) ==
    IF ts.unix # << >> THEN DigitsValue(ts.unix) * MICROS_PER_SECOND
    ELSE LET c == ts.civil
             seconds == DaysFromCivil(c.year, c.month, c.day) * 86400
                        + c.hour * 3600 + c.minute * 60 + c.second
                        - ts.offset * 60
         IN  seconds * MICROS_PER_SECOND + c.nano \div 1000

\* The body of the loops over the lines of a source (lines 78-90, 224-233,
\* 258-267 and 294-303): the line goes to the parser only when it matches,
\* and to the aggregator only when the parser returned an instant.
LoopBody(line) ==
    LET Body(matched, parsed) ==
            /\ line_seen' =
                   [line |-> line, matched |-> matched,
                    parsed |-> IF matched THEN Some(parsed.outcome) ELSE None]
            /\ IF matched /\ parsed.outcome = "some"
               THEN add(timestamp_micros(parsed.ts))
               ELSE UNCHANGED bucketVars
    IN  Body(matches_patterns(patterns, line), parse_line(line))

\* the command lines of the model: the positional argument is a pattern or,
\* under --no-default-pattern, a file
PatternError == << "E", "R", "R", "O", "R" >>
PatternWarn == << "W", "A", "R", "N" >>
PatternInfo == << "I", "N", "F", "O" >>
PathApp == << "a", "p", "p", ".", "l", "o", "g" >>
PathB == << "b", ".", "l", "o", "g" >>
PathC == << "c", ".", "l", "o", "g" >>
PatternTexts == { PatternError, PathApp }
GrepTexts == { << >>, << PatternWarn >>, << PatternWarn, PatternInfo >> }
FileLists == { << >>, << PathB >>, << PathB, PathC >> }
\* the first positional argument is the pattern, so there are no files
\* without one
ArgsSet ==
    { a \in [pattern : { None } \cup { Some(p) : p \in PatternTexts },
             files : FileLists, grep : GrepTexts,
             no_default_pattern : BOOLEAN, follow : BOOLEAN] :
        IsNone(a.pattern) => a.files = << >> }

\* the lines of the sources: stamped inside the first quarter of an hour of
\* the epoch, or without a timestamp
RunLineError ==
    << "1", "9", "7", "0", "-", "0", "1", "-", "0", "1", " ", "0", "0", ":",
       "0", "0", ":", "3", "0", " ", "E", "R", "R", "O", "R", " ", "d", "i",
       "s", "k" >>
RunLineWarn ==
    << "1", "9", "7", "0", "-", "0", "1", "-", "0", "1", " ", "0", "0", ":",
       "0", "1", ":", "1", "5", " ", "W", "A", "R", "N", " ", "s", "l", "o",
       "w" >>
RunLineNoStamp ==
    << "E", "R", "R", "O", "R", " ", "n", "o", " ", "s", "t", "a", "m", "p" >>
RunLineInfo ==
    << "1", "9", "7", "0", "-", "0", "1", "-", "0", "1", " ", "0", "0", ":",
       "1", "5", ":", "0", "0", " ", "I", "N", "F", "O", " ", "f", "i", "n",
       "e" >>
RunLines == { RunLineError, RunLineWarn, RunLineNoStamp, RunLineInfo }
MaxRunLines == 2

\* LogProcessor::new
LogProcessorNew ==
    /\ run_pc = "args"
    /\ IF validate(args)
       THEN /\ patterns' = NewPatterns(args)
            /\ run_pc' = "built"
            /\ run_error' = run_error
       ELSE /\ patterns' = patterns
            /\ run_pc' = "err"
            /\ run_error' = RegexRequired
    /\ UNCHANGED << args, source, line_seen >>
    /\ UNCHANGED << bucketVars, autoVars, allBatchVars, newVars, parseVars,
                    followVars >>

\* LogProcessor::run up to the first read: run_follow_mode or the first two
\* lines of run_batch_mode
Run ==
    /\ run_pc = "built"
    /\ LET Dispatch(mode, paths) ==
               IF IsSome(paths)
               THEN /\ source' = Some([mode |-> mode, paths |-> Unwrap(paths)])
                    /\ run_pc' = "running"
                    /\ run_error' = run_error
               ELSE /\ source' = source
                    /\ run_pc' = "err"
                    /\ run_error' = SingleFileOnly
       IN  IF args.follow
           THEN Dispatch("follow", FollowSources(args))
           ELSE Dispatch("batch", Some(BatchSources(args)))
    /\ UNCHANGED << args, patterns, line_seen >>
    /\ UNCHANGED << bucketVars, autoVars, allBatchVars, newVars, parseVars,
                    followVars >>

\* one turn of the loop over the lines of a source
ProcessLine ==
    /\ run_pc = "running"
    /\ ~panicked
    /\ NumAdded < MaxRunLines
    /\ \E line \in RunLines : LoopBody(line)
    /\ UNCHANGED << args, patterns, run_pc, run_error, source >>
    /\ UNCHANGED << autoVars, allBatchVars, newVars, parseVars, followVars >>

InitRun ==
    /\ args \in ArgsSet
    /\ patterns = << >>
    /\ run_pc = "args"
    /\ run_error = ""
    /\ source = None
    /\ line_seen = NotSeen
    /\ TimeBucketNew(Seconds(DEFAULT_BUCKET_SECONDS, 1))
    /\ NoAutoCall
    /\ NoBatch
    /\ NoNewCall
    /\ NoParserCall
    /\ NoFollow

NextRun == LogProcessorNew \/ Run \/ ProcessLine

SpecRun == InitRun /\ [][NextRun]_vars

\* ------------------------------------------------------------- follow mode
\* run_follow_file on a file another process appends to.  The file holds the
\* complete lines of file and, when tail_len > 0, the first tail_len
\* characters of the next line of to_write, not yet ended by a line feed.
MaxFollowLines == 2

\* the lines ever written or to be written, in order
AllLines == file \o to_write
\* a piece << line, from, to >> of the file: the characters from + 1 .. to of
\* that line
TextOf(piece) == SubSeq(AllLines[piece[1]], piece[2] + 1, piece[3])

\* BufRead::lines, one call of next() with the reader at r: the rest of the
\* line the reader stands in up to its line feed; at the end of the file the
\* characters of an unended line as a line of their own; None (eof) when
\* nothing is left
NextLine(r) ==
    IF r.ln < Len(file)
    THEN [kind |-> "line", piece |-> << r.ln + 1, r.off, Len(file[r.ln + 1]) >>,
          at |-> [ln |-> r.ln + 1, off |-> 0]]
    ELSE IF tail_len > r.off
    THEN [kind |-> "line", piece |-> << r.ln + 1, r.off, tail_len >>,
          at |-> [ln |-> r.ln, off |-> tail_len]]
    ELSE [kind |-> "eof", piece |-> << >>, at |-> r]

\* last_position += 1
AfterLineForgotten(position) == position
AfterLine(position) == position + 1

\* the loop of lines 275-310 ends only by an error's return
AfterPollWhenFound(found) == IF found THEN "sleep" ELSE "done"
AfterPoll(found) == "sleep"

IoError == "I/O error"

\* where the writer may flush in the middle of a line: halfway, or in front
\* of the line feed
CutPoints(line) == { Len(line) \div 2, Len(line) } \ { 0 }

\* the writer appends the next line, or what is missing of it, with its
\* line feed
AppendLine ==
    /\ follow_pc # "err"
    /\ to_write # << >>
    /\ file' = Append(file, Head(to_write))
    /\ to_write' = Tail(to_write)
    /\ tail_len' = 0
    /\ UNCHANGED << partial_writes, follow_pc, reader, skipped, last_position,
                    new_lines_found, examined >>
    /\ UNCHANGED << bucketVars, autoVars, allBatchVars, newVars, parseVars,
                    runVars >>

\* the writer flushes the beginning of the next line
AppendPart ==
    /\ follow_pc # "err"
    /\ partial_writes
    /\ to_write # << >>
    /\ tail_len = 0
    /\ \E k \in CutPoints(Head(to_write)) : tail_len' = k
    /\ UNCHANGED << to_write, partial_writes, file, follow_pc, reader, skipped,
                    last_position, new_lines_found, examined >>
    /\ UNCHANGED << bucketVars, autoVars, allBatchVars, newVars, parseVars,
                    runVars >>

\* line 252: the initial LogReader::new
OpenFile ==
    /\ follow_pc = "open"
    /\ follow_pc' = "initial"
    /\ reader' = AtStart
    /\ UNCHANGED << to_write, partial_writes, file, tail_len, skipped,
                    last_position, new_lines_found, examined >>
    /\ UNCHANGED << bucketVars, autoVars, allBatchVars, newVars, parseVars,
                    runVars >>

\* LogReader::new fails (lines 252 and 278): the error is returned
OpenFails ==
    /\ follow_pc \in { "open", "sleep" }
    /\ follow_pc' = "err"
    /\ run_pc' = "err"
    /\ run_error' = IoError
    /\ UNCHANGED << args, patterns, source, line_seen >>
    /\ UNCHANGED << to_write, partial_writes, file, tail_len, reader, skipped,
                    last_position, new_lines_found, examined >>
    /\ UNCHANGED << bucketVars, autoVars, allBatchVars, newVars, parseVars >>

\* a line read by the initial read or by a poll: lines 257-267 and 291-303
Examine(read) ==
    /\ last_position' = AfterLine(last_position)
    /\ examined' = Append(examined, read.piece)
    /\ reader' = read.at
    /\ LoopBody(TextOf(read.piece))

\* lines 255-271: one turn of the initial read, or its end
InitialNext ==
    /\ follow_pc = "initial"
    /\ LET Step(read) ==
               IF read.kind = "line"
               THEN /\ Examine(read)
                    /\ UNCHANGED follow_pc
               ELSE /\ follow_pc' = "sleep"
                    /\ UNCHANGED << reader, last_position, examined, line_seen,
                                    bucketVars >>
       IN  Step(NextLine(reader))
    /\ UNCHANGED << to_write, partial_writes, file, tail_len, skipped,
                    new_lines_found >>
    /\ UNCHANGED << args, patterns, run_pc, run_error, source >>
    /\ UNCHANGED << autoVars, allBatchVars, newVars, parseVars >>

\* lines 276-279 and 288: the sleep is over and the file is opened again
Poll ==
    /\ follow_pc = "sleep"
    /\ follow_pc' = IF last_position = 0 THEN "read" ELSE "skip"
    /\ reader' = AtStart
    /\ skipped' = 0
    /\ new_lines_found' = FALSE
    /\ UNCHANGED << to_write, partial_writes, file, tail_len, last_position,
                    examined >>
    /\ UNCHANGED << bucketVars, autoVars, allBatchVars, newVars, parseVars,
                    runVars >>

\* lines 282-286: one turn of the skip loop
SkipNext ==
    /\ follow_pc = "skip"
    /\ LET Step(read) ==
               IF read.kind = "line"
               THEN /\ reader' = read.at
                    /\ skipped' = skipped + 1
                    /\ follow_pc' =
                           IF skipped + 1 = last_position THEN "read" ELSE "skip"
               ELSE /\ follow_pc' = "read"
                    /\ UNCHANGED << reader, skipped >>
       IN  Step(NextLine(reader))
    /\ UNCHANGED << to_write, partial_writes, file, tail_len, last_position,
                    new_lines_found, examined >>
    /\ UNCHANGED << bucketVars, autoVars, allBatchVars, newVars, parseVars,
                    runVars >>

\* lines 289-309: one turn of the loop over the new lines, or its end
ReadNext ==
    /\ follow_pc = "read"
    /\ LET Step(read) ==
               IF read.kind = "line"
               THEN /\ Examine(read)
                    /\ new_lines_found' = TRUE
                    /\ UNCHANGED follow_pc
               ELSE /\ follow_pc' = AfterPoll(new_lines_found)
                    /\ UNCHANGED << reader, last_position, examined, line_seen,
                                    new_lines_found, bucketVars >>
       IN  Step(NextLine(reader))
    /\ UNCHANGED << to_write, partial_writes, file, tail_len, skipped >>
    /\ UNCHANGED << args, patterns, run_pc, run_error, source >>
    /\ UNCHANGED << autoVars, allBatchVars, newVars, parseVars >>

\* what gets appended: up to MaxFollowLines lines, or more lines without a
\* timestamp than the batch scan would read
FollowLines == { RunLineError, RunLineWarn, RunLineNoStamp }
RECURSIVE Repeated(_, _)
Repeated(line, n) ==
    IF n = 0 THEN << >> ELSE << line >> \o Repeated(line, n - 1)
FollowScripts ==
    UNION { [1..n -> FollowLines] : n \in 1..MaxFollowLines }
        \cup { Repeated(RunLineNoStamp, EARLY_EXIT_LINES + 2) }

\* --follow ERROR app.log, and --follow --no-default-pattern b.log app.log
FollowArgs ==
    { [pattern |-> Some(PatternError), files |-> << PathApp >>,
       grep |-> << >>, no_default_pattern |-> FALSE, follow |-> TRUE],
      [pattern |-> Some(PathB), files |-> << PathApp >>,
       grep |-> << >>, no_default_pattern |-> TRUE, follow |-> TRUE] }

\* run_follow_mode has called run_follow_file
InitFollow ==
    /\ args \in FollowArgs
    /\ patterns = NewPatterns(args)
    /\ run_pc = "running"
    /\ run_error = ""
    /\ source = Some([mode |-> "follow", paths |-> Unwrap(FollowSources(args))])
    /\ line_seen = NotSeen
    /\ to_write \in FollowScripts
    /\ partial_writes \in BOOLEAN
    \* the long script is written line by line
    /\ Len(to_write) > MaxFollowLines => ~partial_writes
    /\ file = << >>
    /\ tail_len = 0
    /\ follow_pc = "open"
    /\ reader = AtStart
    /\ skipped = 0
    /\ last_position = 0
    /\ new_lines_found = FALSE
    /\ examined = << >>
    /\ TimeBucketNew(Seconds(DEFAULT_BUCKET_SECONDS, 1))
    /\ NoAutoCall
    /\ NoBatch
    /\ NoNewCall
    /\ NoParserCall

NextFollow ==
    \/ AppendLine \/ AppendPart
    \/ OpenFile \/ OpenFails \/ InitialNext \/ Poll \/ SkipNext \/ ReadNext

SpecFollow == InitFollow /\ [][NextFollow]_vars

\* a turn of one of the two read loops, by what it does to the counter and
\* to the place in the code: a line is counted, or the loop ends
ReadTurn ==
    /\ follow_pc \in { "initial", "read" }
    /\ \/ last_position' = last_position + 1 /\ follow_pc' = follow_pc
       \/ last_position' = last_position /\ follow_pc' = "sleep"

\* the thread of run_follow_file is always runnable: its sleep ends after a
\* second and its reads return; the writer and the failures of the file
\* system are under no obligation
SpecFollowFair ==
    /\ SpecFollow
    /\ WF_vars(OpenFile \/ Poll \/ SkipNext)
    /\ WF_<< follow_pc, last_position >>(ReadTurn)

\* ------------------------------------------------------------------ claims
\* the width of a fixed-width aggregator in microseconds
FixedMicros == BucketMicros(bucket_size.s)

\* C1: for a fixed positive width W and every instant t added, also one
\* before the epoch, the count under key floor(t / W) * W is the number of
\* added instants in [key, key + W).
C1_FloorKeyCounts ==
    (bucket_size.kind = "Seconds" /\ FixedMicros > 0) =>
        \A t \in AddedSet :
            LET key == FloorDiv(t, FixedMicros) * FixedMicros
            IN  /\ key <= t /\ t < key + FixedMicros
                /\ CountAt(key) = CountIn(key, key + FixedMicros)

\* C2: whenever the aggregator can be queried, total() is the number of add
\* calls made, for fixed and Auto width and any insertion order.
C2_TotalEqualsAdds == ~panicked => total_matches = NumAdded

C2_Witness ==
    /\ bucket_size.kind = "Auto"
    /\ ~panicked
    /\ NumAdded = 3
    /\ Len(buckets) = 2
    /\ added[-1] = 1

\* C3: buckets() is strictly ascending by bucket start, has no key twice,
\* holds only counts >= 1, and is empty when nothing was added.
C3_BucketsAscending ==
    /\ \A i, j \in 1..Len(get_buckets) :
           i < j => get_buckets[i][1] < get_buckets[j][1]
    /\ \A i \in 1..Len(get_buckets) : get_buckets[i][2] >= 1
    /\ NumAdded = 0 => get_buckets = << >>

C3_Witness ==
    /\ Len(get_buckets) = 3
    /\ added[900000000] = 1 /\ added[-90000000] = 1 /\ added[30000000] = 1

\* C4: span() is none exactly while nothing was added; afterwards it is
\* (minimum, maximum) of the instants added, so first <= last.
C4_SpanIsMinMax ==
    /\ IsNone(time_range) <=> NumAdded = 0
    /\ NumAdded > 0 =>
           /\ Unwrap(time_range) = << Min(AddedSet), Max(AddedSet) >>
           /\ Unwrap(time_range)[1] <= Unwrap(time_range)[2]

C4_Witness ==
    /\ NumAdded = 3
    /\ IsSome(time_range)
    /\ Unwrap(time_range) = << -90000000, 75000000 >>
    /\ added[0] = 1

\* the ladder of the auto-sizing policy, without the multiples of a day
Ladder ==
    << F64(1, 10), F64(1, 1), F64(60, 1), F64(300, 1), F64(900, 1),
       F64(3600, 1), F64(21600, 1), F64(86400, 1) >>
\* width w >= ideal = span / TARGET_BUCKETS
AtLeastIdeal(w, span) == w.n * TARGET_BUCKETS >= span * w.d
\* the smallest value of the ladder that is >= ideal
SnapUpward(span) ==
    IF \E i \in 1..Len(Ladder) : AtLeastIdeal(Ladder[i], span)
    THEN Ladder[CHOOSE i \in 1..Len(Ladder) :
            /\ AtLeastIdeal(Ladder[i], span)
            /\ \A j \in 1..(i - 1) : ~AtLeastIdeal(Ladder[j], span)]
    ELSE F64(((span + TARGET_BUCKETS * 86400 - 1) \div (TARGET_BUCKETS * 86400)) * 86400, 1)

\* C5: the resolved Auto width is the smallest value of the ladder that is
\* >= ideal = span / 15, and so never smaller than ideal.
C5_SnapsUpward ==
    IsSome(auto_size) =>
        /\ Unwrap(auto_size) = SnapUpward(span_seconds)
        /\ AtLeastIdeal(Unwrap(auto_size), span_seconds)

\* C5, second half alone: the resolved width is never smaller than ideal
C5_NeverBelowIdeal ==
    IsSome(auto_size) => AtLeastIdeal(Unwrap(auto_size), span_seconds)

\* the step reads a content-matching line whose timestamp cannot be extracted
ReadsFailingLine ==
    /\ pc = "lines"
    /\ last_read'.kind = "line"
    /\ last_read'.matches
    /\ IsNone(last_read'.ts)

\* the step finds the current source exhausted
ReadsEndOfFile == pc = "lines" /\ last_read'.kind = "eof"

\* the run goes on with the source after the current one, or, after the last
\* source, ends with the result or with the no-matches-in-any-file error
ProceedsToNextSource ==
    IF file_idx < readers
    THEN /\ pc' = "lines"
         /\ file_idx' = file_idx + 1
         /\ lines_processed' = 0
    ELSE \/ pc' = "output"
         \/ pc' = "err" /\ error' = NoMatchesInAnyFile

\* C6: with no custom format, when the 11th content-matching line of a
\* source fails and no earlier line of the source gave a timestamp, fail-fast
\* aborts the run with the no-timestamps error in that very step, and lenient
\* mode leaves the source and proceeds to the next one; so no source is ever
\* read past 11 matching lines without a timestamp.
C6_EarlyExitStep ==
    (/\ ReadsFailingLine
     /\ matching_lines_processed = EARLY_EXIT_LINES
     /\ ~timestamp_found
     /\ IsNone(time_format))
    => IF fail_quick
       THEN pc' = "err" /\ error' = NoTimestampsDetected
       ELSE ProceedsToNextSource

C6_NoTwelfthLine ==
    (pc = "lines" /\ ~timestamp_found /\ IsNone(time_format))
    => matching_lines_processed <= EARLY_EXIT_LINES

C6_EarlyExit == [](C6_NoTwelfthLine) /\ [][C6_EarlyExitStep]_vars

\* lenient mode left the second source at its 11th matching line and the run
\* ended with the result of the first
C6_Witness ==
    /\ ~fail_quick
    /\ IsNone(time_format)
    /\ pc = "output"
    /\ file_idx = 2
    /\ last_read.kind = "line"
    /\ matching_lines_processed = EARLY_EXIT_LINES + 1
    /\ ~timestamp_found

\* C7: with no custom format, when a source ends with matching lines and no
\* timestamp, fail-fast aborts with the no-timestamps error and lenient mode
\* proceeds to the next source without counting the source.
C7_EndOfSourceStep ==
    (/\ ReadsEndOfFile
     /\ matching_lines_processed > 0
     /\ ~timestamp_found
     /\ IsNone(time_format))
    => IF fail_quick
       THEN pc' = "err" /\ error' = NoTimestampsDetected
       ELSE /\ ProceedsToNextSource
            /\ files_with_matches' = files_with_matches

C7_EndOfSource == [][C7_EndOfSourceStep]_vars

C7_Witness ==
    /\ ~fail_quick
    /\ IsNone(time_format)
    /\ pc = "output"
    /\ file_idx = 2
    /\ last_read.kind = "eof"
    /\ matching_lines_processed > 0
    /\ ~timestamp_found
    /\ files_with_matches = 1

\* C8: when a source ends with no content-matching line at all, a source
\* without lines included, fail-fast aborts with the no-matching-lines error
\* and lenient mode proceeds to the next source.
C8_NoMatchStep ==
    (ReadsEndOfFile /\ matching_lines_processed = 0)
    => IF fail_quick
       THEN pc' = "err" /\ error' = NoMatchingLines
       ELSE ProceedsToNextSource

C8_NoMatchingLines == [][C8_NoMatchStep]_vars

\* C9: a batch run that reaches result output has added an instant, so
\* total() >= 1; with nothing added it ends in an error in either mode.
C9_OutputHasMatches ==
    pc = "output" => (NumAdded >= 1 /\ total_matches >= 1)

\* C10: once a source has given a timestamp, a content-matching line without
\* one neither aborts the run nor leaves the source: the run stays in the
\* line loop of the same source with the aggregator untouched, a later line
\* with a timestamp is still added, and the end of the source raises no
\* no-timestamps error and counts the source.
C10_FailureStep ==
    /\ (ReadsFailingLine /\ timestamp_found)
       => /\ pc' = "lines"
          /\ file_idx' = file_idx
          /\ error' = ""
          /\ timestamp_found'
          /\ buckets' = buckets
    /\ (/\ pc = "lines"
        /\ timestamp_found
        /\ last_read'.kind = "line"
        /\ IsSome(last_read'.ts)
        /\ ~panicked')
       => total_matches' = total_matches + 1
    /\ (ReadsEndOfFile /\ timestamp_found)
       => /\ error' # NoTimestampsDetected
          /\ files_with_matches' = files_with_matches + 1

C10_FailuresNeverEscalate == [][C10_FailureStep]_vars

\* one timestamp, then eleven matching lines without one, and still reading
C10_Witness ==
    /\ pc = "lines"
    /\ timestamp_found
    /\ total_matches = 1
    /\ matching_lines_processed = EARLY_EXIT_LINES + 2
    /\ last_read.kind = "line"
    /\ last_read.matches
    /\ IsNone(last_read.ts)

\* C14: TimeBucket::new fails, and no aggregator exists afterwards, for every
\* text that is neither "auto" in any letter case nor a number above zero.
ValidBucketText(s) ==
    \/ to_lowercase(s) = << "a", "u", "t", "o" >>
    \/ IsSome(ParseF64(s)) /\ Unwrap(ParseF64(s)).n > 0
C14_InvalidRejected ==
    (built # "no" /\ IsSome(bucket_size_arg)
        /\ ~ValidBucketText(Unwrap(bucket_size_arg)))
    => built = "err"

\* two f64 values held as fractions are the same number
F64Eq(a, b) == a.n * b.d = b.n * a.d
SixtySeconds == F64(DEFAULT_BUCKET_SECONDS, 1)
\* the count a map m stores under a key, 0 when the key is absent
CountOf(m, key) ==
    IF \E i \in 1..Len(m) : m[i][1] = key
    THEN m[CHOOSE i \in 1..Len(m) : m[i][1] = key][2]
    ELSE 0
KeysOf(m) == { m[i][1] : i \in 1..Len(m) }

\* C15: the first add(t) into an empty Auto aggregator puts t under the key
\* floor(t / 60 s) * 60 s, the key of the provisional width of 60 s.
C15_FirstAutoAddUsesDefault ==
    (bucket_size.kind = "Auto" /\ NumAdded = 1)
    => LET t == CHOOSE x \in AddedSet : TRUE
           width == DEFAULT_BUCKET_SECONDS * MICROS_PER_SECOND
       IN  buckets = << << FloorDiv(t, width) * width, 1 >> >>

\* C16: an add call that returns raises the count of exactly one key by one
\* (creating it with 1) and leaves every other entry as it was, in Auto mode
\* too; get_buckets, total_matches, bucket_size_seconds and time_range leave
\* the aggregator's fields as they were.
IsAddStep == NumAdded' = NumAdded + 1 /\ ~panicked'
IsReadOnlyStep ==
    returned'.op \in
        { "get_buckets", "total_matches", "bucket_size_seconds", "time_range" }
C16_AddStep ==
    IsAddStep =>
        \E key \in KeysOf(buckets') :
            /\ CountOf(buckets', key) = CountOf(buckets, key) + 1
            /\ \A other \in (KeysOf(buckets) \cup KeysOf(buckets')) \ { key } :
                   CountOf(buckets', other) = CountOf(buckets, other)
C16_ReadOnlyStep ==
    IsReadOnlyStep =>
        UNCHANGED << bucket_size, buckets, first_timestamp, last_timestamp >>
C16_AddChangesOneEntry == [][C16_AddStep /\ C16_ReadOnlyStep]_vars
\* an Auto aggregator whose width has moved from 0.1 s to a minute or more
\* while it held entries, after one more add
C16_Witness ==
    /\ bucket_size.kind = "Auto"
    /\ returned.op = "add"
    /\ Len(buckets) >= 3
    /\ bucket_size_seconds.n >= 60

\* C17: with the fixed width "0.5", the instants 0.1 s and 0.3 s after a
\* whole second are counted under that second's key and the instant 0.6 s
\* after it under the key half a second later.
HalfSecondWidth ==
    built = "ok" /\ bucket_size_arg = Some(<< "0", ".", "5" >>)
C17_HalfSecondBuckets ==
    (HalfSecondWidth /\ \A t \in AddedSet : t >= 0) =>
        /\ CountAt(0) = added[0] + added[100000] + added[300000]
        /\ CountAt(500000) = added[600000]
C17_Witness ==
    /\ HalfSecondWidth
    /\ added[100000] = 1 /\ added[300000] = 1 /\ added[600000] = 1
    /\ buckets = << << 0, 2 >>, << 500000, 1 >> >>

\* C18: bucket_size_seconds returns the configured number for a fixed
\* width, before and after adds; 60 when no width was configured; 60 for
\* Auto while no instant has been added.
ConfiguredWidth ==
    IF IsNone(bucket_size_arg) THEN SixtySeconds
    ELSE Unwrap(ParseF64(Unwrap(bucket_size_arg)))
ConfiguredAuto ==
    IsSome(bucket_size_arg)
        /\ to_lowercase(Unwrap(bucket_size_arg)) = << "a", "u", "t", "o" >>
C18_ActiveWidth ==
    returned.op = "bucket_size_seconds" =>
        IF ConfiguredAuto
        THEN NumAdded = 0 => F64Eq(returned.value, SixtySeconds)
        ELSE F64Eq(returned.value, ConfiguredWidth)
\* the width "0.5" read back after three adds
C18_Witness ==
    /\ returned = [op |-> "bucket_size_seconds", value |-> F64(5, 10)]
    /\ NumAdded = 3

\* C19: the width of an Auto aggregator that holds data is the auto size of
\* the whole seconds between the earliest and the latest instant ever added,
\* whatever their number and order; so two Auto aggregators with the same
\* earliest and latest instant report the same width.
C19_WidthFromSpanOnly ==
    (bucket_size.kind = "Auto" /\ NumAdded > 0) =>
        F64Eq(bucket_size_seconds,
              calculate_auto_bucket_size(
                  num_seconds(Min(AddedSet), Max(AddedSet))))
\* the latest instant was added before an earlier one, one of them twice
C19_Witness ==
    /\ bucket_size.kind = "Auto"
    /\ added[900000000] = 1 /\ added[30000000] = 2
    /\ buckets = << << 0, 2 >>, << 900000000, 1 >> >>

\* ------------------------------------------------ claims about the parser
Civil(y, mo, d, h, mi, sec, nano) ==
    [year |-> y, month |-> mo, day |-> d, hour |-> h, minute |-> mi,
     second |-> sec, nano |-> nano]
ParsedLine == parse_result.call = "parse_line"
ParsedText == parse_result.call = "parse_with_format"

\* C11: without a custom format, the candidates are the leftmost match of
\* each recognizer class in the order unix, iso, apache, rfc2822, slash date,
\* syslog, yearless iso, time of day; parse_line returns the instant of the
\* first pair (candidate, format) that parses, candidates before formats.  So
\* a parseable candidate of an earlier class wins wherever it stands, and of
\* two ISO timestamps the left one is returned.
ClassOrder ==
    << "unix", "iso", "apache", "rfc2822", "datetime", "syslog",
       "yearless_iso", "time_only" >>
RegexOf(name) ==
    LET Named(classes) ==
            classes[CHOOSE i \in 1..Len(classes) : classes[i].name = name]
    IN  Named(Recognizers)
\* the leftmost match of a class in the line, as a list of none or one text
LeftmostOf(name, line) ==
    LET Leftmost(class) ==
            LET starts == { pos \in 1..(Len(line) + 1) :
                               /\ MatchEnd(class.regex, line, pos) # 0
                               /\ class.anchored => pos = 1 }
            IN  IF starts = {} THEN << >>
                ELSE << SubSeq(line, Min(starts),
                               MatchEnd(class.regex, line, Min(starts)) - 1) >>
    IN  Leftmost(RegexOf(name))
RECURSIVE InClassOrder(_, _)
InClassOrder(names, line) ==
    IF names = << >> THEN << >>
    ELSE LeftmostOf(Head(names), line) \o InClassOrder(Tail(names), line)
\* the pairs (candidate, format) that parse
ParsingPairs(candidates) ==
    { pair \in (1..Len(candidates)) \X (1..Len(COMMON_FORMATS)) :
        IsSome(parse_with_format(candidates[pair[1]],
                                 COMMON_FORMATS[pair[2]]).ts) }
PairBefore(p, q) == p[1] < q[1] \/ (p[1] = q[1] /\ p[2] <= q[2])
C11_FirstPairWins ==
    (ParsedLine /\ IsNone(custom_format) /\ parse_result.outcome # "panic") =>
        LET FirstOf(candidates, pairs) ==
                LET first == CHOOSE p \in pairs :
                                 \A q \in pairs : PairBefore(p, q)
                IN  /\ parse_result.outcome = "some"
                    /\ parse_result.ts =
                           Unwrap(parse_with_format(
                                      candidates[first[1]],
                                      COMMON_FORMATS[first[2]]).ts)
            Holds(candidates, pairs) ==
                /\ candidates # << >> =>
                       extract_timestamp_candidates(input_line).list = candidates
                /\ IF candidates = << >> \/ pairs = {}
                   THEN candidates # << >> => parse_result.outcome = "none"
                   ELSE FirstOf(candidates, pairs)
            OfCandidates(candidates) ==
                Holds(candidates, ParsingPairs(candidates))
        IN  /\ OfCandidates(InClassOrder(ClassOrder, input_line))
            /\ input_line = LineTwoIso =>
                   parse_result.ts.civil = Civil(2025, 10, 3, 14, 30, 45, 0)
            /\ input_line = LineSyslogThenIso =>
                   parse_result.ts.civil = Civil(2025, 10, 4, 15, 45, 30, 0)
            /\ input_line = LineSlashDate =>
                   parse_result.ts.civil = Civil(2025, 10, 3, 14, 30, 45, 0)
\* the ISO timestamp behind the syslog timestamp was returned
C11_Witness ==
    /\ ParsedLine /\ IsNone(custom_format)
    /\ input_line = LineSyslogThenIso
    /\ parse_result.candidate = 1
    /\ parse_result.ts.civil = Civil(2025, 10, 4, 15, 45, 30, 0)

\* C12: parse_line does not panic, whatever the line.
C12_NeverPanics == ParsedLine => parse_result.outcome # "panic"

\* C13: a text whose trimmed form is the integer n is taken as Unix epoch
\* seconds exactly when 1000000000 <= n < 10000000000, that is when n is not
\* negative and has ten digits.
C13_UnixRange ==
    (ParsedText /\ IsSome(ParseI64(trim(input_line)))) =>
        LET n == Unwrap(ParseI64(trim(input_line)))
        IN  (parse_result.via = "unix")
                <=> (~n.negative /\ Len(n.digits) = 10)

\* C20: an instant read with a format that has no year carries the month,
\* day and time of the text and the current UTC year; one read with a bare
\* time format carries that time on the current UTC date; and the year or
\* date is only supplied after both plain parses of the same text with the
\* same format have failed.
UsedText ==
    IF ParsedText \/ parse_result.candidate = 0 THEN input_line
    ELSE extract_timestamp_candidates(input_line).list[parse_result.candidate]
UsedFormat ==
    IF parse_result.format = 0
    THEN (IF ParsedLine THEN Unwrap(custom_format) ELSE << >>)
    ELSE COMMON_FORMATS[parse_result.format]
C20_YearAndDateInferred ==
    (parse_result.outcome = "some" /\ parse_result.via # "unix") =>
        LET civil == parse_result.ts.civil
            inferred == parse_result.via \in { "year", "date" }
            Holds(text, format, read) ==
                /\ inferred <=> ~Contains(format, "%Y")
                /\ inferred =>
                       /\ IsNone(OffsetParse(text, format))
                       /\ IsNone(NaiveParse(text, format))
                /\ parse_result.via = "year" =>
                       /\ civil.month = Unwrap(read.month)
                       /\ civil.day = Unwrap(read.day)
                /\ inferred =>
                       /\ civil.hour = Unwrap(read.hour)
                       /\ civil.minute = Unwrap(read.minute)
                       /\ civil.second = Unwrap(read.second)
            Read(text, format) ==
                Holds(text, format, ScanItems(format, text, Parsed0))
        IN  /\ Read(trim(UsedText), UsedFormat)
            /\ parse_result.via = "year" => civil.year = now.year
            /\ parse_result.via = "date" =>
                   /\ civil.year = now.year
                   /\ civil.month = now.month
                   /\ civil.day = now.day
            /\ (ParsedLine /\ input_line = LineSyslog) =>
                   civil = Civil(now.year, 10, 3, 14, 30, 45, 0)
            /\ (ParsedLine /\ input_line = LineYearlessIso) =>
                   civil = Civil(now.year, 9, 24, 23, 45, 29, 362000000)
            /\ (ParsedLine /\ input_line = LineTimeOnly) =>
                   civil = Civil(now.year, now.month, now.day, 5, 40, 12,
                                 123000000)
\* the syslog line read on the leap day of 2028
C20_Witness ==
    /\ ParsedLine /\ input_line = LineSyslog /\ now.year = 2028
    /\ parse_result.via = "year"
    /\ parse_result.ts.civil = Civil(2028, 10, 3, 14, 30, 45, 0)

\* C21: a run of Unix epoch digits gives the Unix candidate, the first of the
\* list, exactly when the run begins at one of the byte offsets 0 to 4 of the
\* line.
C21_UnixCandidateNearStart ==
    (ParsedLine /\ parse_result.outcome # "panic") =>
        LET Holds(run, candidates) ==
                IsSome(run) =>
                    ((Unwrap(run).start < 5)
                        <=> (candidates # << >>
                                /\ candidates[1] = Unwrap(run).text))
        IN  Holds(Find(unix_timestamp_regex, FALSE, input_line),
                  extract_timestamp_candidates(input_line).list)

\* C22: with a custom format, parse_line returns the parse of the whole line
\* with that format when there is one, without a candidate; when there is
\* none, the candidates and the format table decide, so the line with text
\* behind a slash date still gives an instant.
C22_CustomFormatFirst ==
    (ParsedLine /\ IsSome(custom_format) /\ parse_result.outcome # "panic") =>
        LET Holds(whole, candidates) ==
                IF IsSome(whole.ts)
                THEN /\ parse_result.outcome = "some"
                     /\ parse_result.ts = Unwrap(whole.ts)
                     /\ parse_result.candidate = 0
                ELSE /\ parse_result.outcome = "some"
                            <=> ParsingPairs(candidates) # {}
                     /\ parse_result.outcome = "some"
                            => parse_result.candidate > 0
        IN  /\ Holds(parse_with_format(input_line, Unwrap(custom_format)),
                     extract_timestamp_candidates(input_line).list)
            /\ input_line = LineCustomEntry => parse_result.outcome = "some"
\* the line with trailing text was read through a candidate
C22_Witness ==
    /\ ParsedLine /\ IsSome(custom_format)
    /\ input_line = LineCustomEntry
    /\ parse_result.outcome = "some" /\ parse_result.candidate = 1

\* ------------------------------------- further claims about the aggregator
\* C26: on an aggregator that TimeBucket::new returned, for "0", for
\* "0.0000001" and for "auto" too, no add call panics.
C26_AddNeverPanics == built = "ok" => ~panicked

\* a <= b for two f64 values held as fractions
F64Le(a, b) == a.n * b.d <= b.n * a.d

\* C27 as stated: in Auto mode no add lowers the active width.
C27_WidthNeverShrinks ==
    [][(bucket_size.kind = "Auto" /\ IsAddStep)
          => F64Le(bucket_size_seconds, bucket_size_seconds')]_vars
\* C27: in Auto mode no add into an aggregator that already holds an instant
\* lowers the active width; the first add takes it from the default of 60 s
\* to 0.1 s.
C27_WidthNeverShrinksWithData ==
    [][(bucket_size.kind = "Auto" /\ IsAddStep /\ NumAdded > 0)
          => F64Le(bucket_size_seconds, bucket_size_seconds')]_vars
\* three adds have taken the width of an Auto aggregator to five minutes
C27_Witness ==
    /\ bucket_size.kind = "Auto"
    /\ NumAdded = 3
    /\ bucket_size_seconds = F64(300, 1)

\* key is a whole multiple of a width of micros microseconds
KeyMultipleOf(key, micros) == micros # 0 /\ key % Abs(micros) = 0

\* C28 as stated: every key of the map is a multiple of the active width.
C28_KeysMultiplesOfActiveWidth ==
    ~panicked =>
        \A i \in 1..Len(buckets) :
            KeyMultipleOf(buckets[i][1], BucketMicros(bucket_size_seconds))
\* C28: with a fixed width every key of the map is a multiple of it; with
\* Auto, the key an add counts under is a multiple of the width that is
\* active right after that add, and keys of earlier adds stay as they are.
C28_KeysMultiplesAtInsertion ==
    /\ [](bucket_size.kind = "Seconds" => C28_KeysMultiplesOfActiveWidth)
    /\ [][IsAddStep =>
            \E key \in KeysOf(buckets') :
                /\ CountOf(buckets', key) = CountOf(buckets, key) + 1
                /\ KeyMultipleOf(key, BucketMicros(bucket_size_seconds'))]_vars
\* an Auto aggregator that reports one minute and keeps a key of 0.1 s
C28_Witness ==
    /\ bucket_size.kind = "Auto"
    /\ buckets = << << 100000, 1 >>, << 900000000, 1 >> >>
    /\ bucket_size_seconds = F64(60, 1)

\* ---------------------------------------------- claims about the processor
\* the pattern text occurs in the line, a dot standing for any character
Occurs(p, line) ==
    \E i \in 1..(Len(line) - Len(p) + 1) :
        \A k \in 1..Len(p) : p[k] = "." \/ line[i + k - 1] = p[k]
\* the pattern texts the command line configures
Configured(a) ==
    (IF a.no_default_pattern \/ IsNone(a.pattern) THEN {}
     ELSE { Unwrap(a.pattern) }) \cup SeqSet(a.grep)
ContentMatching(a, line) ==
    Configured(a) = {} \/ \E p \in Configured(a) : Occurs(p, line)

\* C25: a line is content-matching exactly when one of the configured
\* patterns (the primary pattern or a --grep pattern) occurs in it, and
\* always when no pattern is configured; the parser is called for the
\* content-matching lines only, and every add is for such a line that the
\* parser read an instant from.
C25_OnlyMatchingLinesCounted ==
    /\ [](line_seen # NotSeen =>
            /\ line_seen.matched <=> ContentMatching(args, line_seen.line)
            /\ IsSome(line_seen.parsed) <=> line_seen.matched)
    /\ [][IsAddStep =>
            line_seen'.matched /\ line_seen'.parsed = Some("some")]_vars

\* the line with ERROR alone passes the patterns ERROR and WARN and is counted
C25_Witness ==
    /\ Len(patterns) = 2
    /\ line_seen.line = RunLineError
    /\ line_seen.matched
    /\ total_matches = 1

\* C30: follow mode reads the sources batch mode reads for the same
\* arguments, the positional argument first under --no-default-pattern.
C30_SameSources ==
    (run_pc = "running" /\ args.follow) =>
        Unwrap(source).paths = BatchSources(args)

\* ------------------------------------------------ claims about follow mode
\* the first n lines of the file, each handed over whole and once
WholeLines(n) == [i \in 1..n |-> << i, 0, Len(AllLines[i]) >>]
\* the lines of the model that carry a timestamp
Stamped == { RunLineError, RunLineWarn, RunLineInfo }
\* the content-matching lines with a timestamp among the first n
Counted(n) ==
    Cardinality({ i \in 1..n :
                    AllLines[i] \in Stamped /\ ContentMatching(args, AllLines[i]) })

\* C23: when the file grows by complete lines only, the lines examined so
\* far are the first last_position lines of the file, each once and in
\* order, total() is the number of content-matching lines with a timestamp
\* among them, and a read that reaches the end of the file has examined
\* every line of the file.
C23_EveryLineOnce ==
    /\ [](~partial_writes =>
            /\ last_position <= Len(file)
            /\ examined = WholeLines(last_position)
            /\ total_matches = Counted(last_position))
    /\ [][(~partial_writes /\ follow_pc \in { "initial", "read" }
              /\ follow_pc' = "sleep") =>
            last_position' = Len(file')]_vars

\* a poll has found the second of two lines; one of them counts
C23_Witness ==
    /\ ~partial_writes
    /\ ~args.no_default_pattern
    /\ follow_pc = "sleep"
    /\ new_lines_found
    /\ file = << RunLineError, RunLineWarn >>
    /\ last_position = 2
    /\ total_matches = 1

C29_NoPartialLine ==
    /\ Len(examined) <= Len(file)
    /\ examined = WholeLines(Len(examined))

=============================================================================
